---- MODULE Spec2Model ----
(***************************************************************************)
(* Workflow orchestration engine of vector-app: the in-memory run registry *)
(* (workflow-engine.ts), the JSON document store behind a directory lock   *)
(* (workflow-db.ts), the event publication of each engine call and the     *)
(* action handler's generation path for the LLM phases (workflow-http.ts). *)
(***************************************************************************)
EXTENDS Integers, Sequences, FiniteSets, TLC

VARIABLES
    runs,       \* workflow-engine.ts `runs`: runId -> cached snapshot
    db,         \* workflow-db.json: [runs, artifacts]
    now,        \* the clock read by new Date()
    artSeq,     \* number of artifact ids generated so far (crypto.randomUUID)
    published,  \* events handed to publishWorkflowEvent by the last call
    lastCall,   \* the last engine call: operation, arguments, outcome
    client,     \* the document a caller got from getWorkflowSnapshot
    requests,   \* the action requests handleActionRequest has taken, in order
    served,     \* the listing the artifacts route served since the last call
    runListeners, \* workflow-events.ts `runListeners`: runId -> its listeners
    delivered,  \* the listener invocations made by the last call, in order
    streams,    \* the stream route's connections: listener -> connection
    disk,       \* the store's directory: document, lock directory, temporary files
    procs       \* the processes that write the store: process -> its position

vars == <<runs, db, now, artSeq, published, lastCall, client, requests, served,
          runListeners, delivered, streams, disk, procs>>

----------------------------------------------------------------------------
(* Bounds *)

\* number of clock-reading engine calls explored (the clock is capped here)
MaxClock == 2

\* number of action requests taken by the HTTP handler
MaxRequests == 2

\* number of calls made to the store by its direct callers
MaxDbCalls == 5

\* number of fan-out requests taken by the HTTP handler
MaxFanouts == 1
MaxHeartbeats == 2
MaxWaits == 2
MaxCrashes == 1
MaxInductions == 3
\* merge-review requests received by the handler (SpecReview)
MaxReviews == 1

----------------------------------------------------------------------------
(* Contract data *)

PHASE_STATUSES ==
    {"DRAFT", "BLOCKED", "RUNNING", "WAITING_FOR_HUMAN", "READY_FOR_REVIEW",
     "APPROVED", "REJECTED", "ERROR_STATUS", "COMPLETED"}

MUTATING_ACTIONS == {"START_PHASE", "APPROVE_PHASE", "REJECT_PHASE", "RETRY_PHASE"}

STATUS_TRANSITIONS(action) ==
    CASE action = "START_PHASE"   -> "RUNNING"
      [] action = "APPROVE_PHASE" -> "APPROVED"
      [] action = "REJECT_PHASE"  -> "REJECTED"
      [] action = "RETRY_PHASE"   -> "RUNNING"

Undefined == "undefined"
NoTime == -1
NoAttempt == -1

\* a PhaseOutput: its variantId, the generated content it carries, which is
\* identified by the request that asked for it and the attempt it was asked for,
\* and its details.generatedRefinements and details.generatedVariants
PhaseOutput(variantId, request, forAttempt) ==
    [variantId |-> variantId, request |-> request, forAttempt |-> forAttempt,
     generatedRefinements |-> <<>>, generatedVariants |-> <<>>]

\* output: undefined
NoOutput == PhaseOutput(Undefined, 0, NoAttempt)

PhaseIds == {"phase_a", "phase_b", "phase_c", "phase_d", "phase_e"}

\* mock_responses/workflow.snapshot.json: five phases,
\* phase_a -> phase_b, phase_c -> phase_d -> phase_e
TemplateNode(phaseId, status, dependsOn) ==
    [phaseId |-> phaseId, status |-> status, dependsOn |-> dependsOn]

TemplatePhase(phaseId, status) ==
    [runId |-> "run_20260223_001", phaseId |-> phaseId, attempt |-> 1,
     status |-> status, startedAt |-> NoTime, finishedAt |-> NoTime,
     error |-> Undefined, output |-> NoOutput, artifacts |-> <<>>]

snapshotTemplate ==
    [runId |-> "run_20260223_001",
     createdAt |-> 0,
     updatedAt |-> 0,
     nodes |-> << TemplateNode("phase_a", "COMPLETED", {}),
                  TemplateNode("phase_b", "RUNNING", {"phase_a"}),
                  TemplateNode("phase_c", "RUNNING", {"phase_a"}),
                  TemplateNode("phase_d", "BLOCKED", {"phase_b", "phase_c"}),
                  TemplateNode("phase_e", "BLOCKED", {"phase_d"}) >>,
     phases |-> [p \in PhaseIds |->
                   TemplatePhase(p, CASE p = "phase_a" -> "COMPLETED"
                                      [] p \in {"phase_b", "phase_c"} -> "RUNNING"
                                      [] OTHER -> "BLOCKED")]]

PhaseType(phaseId) ==
    CASE phaseId \in {"phase_a", "phase_d"} -> "HUMAN"
      [] phaseId \in {"phase_b", "phase_c"} -> "LLM"
      [] phaseId = "phase_e" -> "SYSTEM"
      [] OTHER -> Undefined

----------------------------------------------------------------------------
(* Inputs *)

RunIds == {"r1"}
\* the runs of the callers that work on two runs
StoreRunIds == {"r1", "r2"}
PhaseIdInputs == PhaseIds \cup {"phase_x"}
Outputs == {PhaseOutput("out1", 0, NoAttempt), PhaseOutput("out2", 0, NoAttempt)}

----------------------------------------------------------------------------
(* workflow-db.ts: one JSON document behind a directory lock.  A call is    *)
(* threaded through a record m: the state it works on, the number of        *)
(* withDbLock calls it has made, and what it has thrown.                    *)

NoThrow == "none"

Call(runsNow, dbNow, artSeqNow, clock, failAt) ==
    [runs |-> runsNow, db |-> dbNow, artSeq |-> artSeqNow, clock |-> clock,
     dbCalls |-> 0, failAt |-> failAt, published |-> <<>>, thrown |-> NoThrow,
     unblocked |-> {}, previousStatus |-> Undefined,
     listeners |-> runListeners, delivered |-> <<>>]

Throw(m, error) == [m EXCEPT !.thrown = error]

Put(f, key, value) ==
    [k \in (DOMAIN f) \cup {key} |-> IF k = key THEN value ELSE f[k]]

Remove(f, key) == [k \in (DOMAIN f) \ {key} |-> f[k]]

\* mkdirSync(DB_LOCK_PATH) fails while another writer holds the lock directory;
\* past maxWaitMs the call throws, otherwise fn runs on the document read from
\* disk and the document is written back
withDbLock(m, written) ==
    IF m.dbCalls + 1 = m.failAt
    THEN [m EXCEPT !.dbCalls = @ + 1, !.thrown = "LockTimeout"]
    ELSE [m EXCEPT !.dbCalls = @ + 1, !.db = written]

saveRunSnapshot(m, snapshot) ==
    withDbLock(m, [m.db EXCEPT !.runs = Put(@, snapshot.runId, snapshot)])

StoredArtifact(m, params) ==
    [artifactId |-> m.artSeq + 1, runId |-> params.runId, phaseId |-> params.phaseId,
     attempt |-> params.attempt, kind |-> params.kind, createdAt |-> m.clock,
     data |-> params.data]

\* the stored artifact of a successful saveArtifact(m, params) is the last one
saveArtifact(m, params) ==
    LET saved == withDbLock(m, [m.db EXCEPT !.artifacts = Append(@, StoredArtifact(m, params))])
    IN  IF saved.thrown = NoThrow THEN [saved EXCEPT !.artSeq = @ + 1] ELSE saved

\* Array.prototype.sort with createdAt.localeCompare, which is stable: element i
\* comes after the elements created earlier and the earlier elements created at
\* the same time
SortByCreatedAt(s) ==
    LET before(i) == {j \in DOMAIN s : \/ s[j].createdAt < s[i].createdAt
                                       \/ s[j].createdAt = s[i].createdAt /\ j < i}
    IN  [k \in DOMAIN s |-> s[CHOOSE i \in DOMAIN s : Cardinality(before(i)) = k - 1]]

\* a listing that forgets the attempt it was asked for
listArtifactsOfEveryAttempt(dbNow, runId, phaseId, attempt) ==
    SortByCreatedAt(SelectSeq(dbNow.artifacts,
                              LAMBDA a : a.runId = runId /\ a.phaseId = phaseId))

\* attempt = NoAttempt (no number given) lists the artifacts of every attempt
listArtifactsForPhase(dbNow, runId, phaseId, attempt) ==
    SortByCreatedAt(
        SelectSeq(
            SelectSeq(dbNow.artifacts,
                      LAMBDA a : a.runId = runId /\ a.phaseId = phaseId),
            LAMBDA a : IF attempt # NoAttempt THEN a.attempt = attempt ELSE TRUE))

\* a delete that drops the snapshot and keeps the run's artifacts
deleteRunSnapshotOnly(m, runId) ==
    withDbLock(m, [m.db EXCEPT !.runs = Remove(@, runId)])

deleteRunData(m, runId) ==
    withDbLock(m, [runs |-> Remove(m.db.runs, runId),
                   artifacts |-> SelectSeq(m.db.artifacts, LAMBDA a : a.runId # runId)])

----------------------------------------------------------------------------
(* workflow-engine.ts *)

\* a snapshot handed out as it is, not copied
shareSnapshot(source) == [doc |-> source, alias |-> TRUE]

\* structuredClone: a copy that shares nothing with its source
cloneSnapshot(source) == [doc |-> source, alias |-> FALSE]

StatusOfGate(phaseId, status) ==
    CASE phaseId = "phase_a" -> "DRAFT"
      [] phaseId \in {"phase_b", "phase_c"} -> "BLOCKED"
      [] OTHER -> status

normalizePhaseAGate(snapshot) ==
    [snapshot EXCEPT
        !.phases = [p \in DOMAIN snapshot.phases |->
            IF p \in {"phase_a", "phase_b", "phase_c"}
            THEN [snapshot.phases[p] EXCEPT
                    !.status = StatusOfGate(p, snapshot.phases[p].status),
                    !.startedAt = NoTime, !.finishedAt = NoTime,
                    !.output = NoOutput, !.error = Undefined,
                    !.artifacts = <<>>, !.attempt = 1]
            ELSE snapshot.phases[p]],
        !.nodes = [i \in DOMAIN snapshot.nodes |->
            [snapshot.nodes[i] EXCEPT
                !.status = StatusOfGate(snapshot.nodes[i].phaseId, snapshot.nodes[i].status)]]]

Seeded(runId, clock) ==
    normalizePhaseAGate(
        [snapshotTemplate EXCEPT
            !.runId = runId, !.createdAt = clock, !.updatedAt = clock,
            !.phases = [p \in DOMAIN snapshotTemplate.phases |->
                          [snapshotTemplate.phases[p] EXCEPT !.runId = runId]]])

\* a run that is seeded whenever it is not cached, stored or not
ensureRunReseeding(m, runId) ==
    IF runId \in DOMAIN m.runs THEN m
    ELSE LET seeded == Seeded(runId, m.clock)
         IN  saveRunSnapshot([m EXCEPT !.runs = Put(@, runId, seeded)], seeded)

\* after ensureRun(m, runId) without a throw, m.runs[runId] is the run object
ensureRun(m, runId) ==
    IF runId \in DOMAIN m.runs THEN m
    ELSE IF runId \in DOMAIN m.db.runs
    THEN [m EXCEPT !.runs = Put(@, runId, cloneSnapshot(m.db.runs[runId]).doc)]
    ELSE LET seeded == Seeded(runId, m.clock)
         IN  saveRunSnapshot([m EXCEPT !.runs = Put(@, runId, seeded)], seeded)

IndexOfNode(nodes, phaseId) ==
    LET found == {i \in DOMAIN nodes : nodes[i].phaseId = phaseId}
    IN  IF found = {} THEN 0 ELSE CHOOSE i \in found : \A j \in found : i <= j

\* a node list left as it is
keepNodeStatus(nodes, phaseId, status) == nodes

updateNodeStatus(nodes, phaseId, status) ==
    LET i == IndexOfNode(nodes, phaseId)
    IN  IF i = 0 THEN nodes ELSE [nodes EXCEPT ![i].status = status]

\* a dependency counted as satisfied once it has been decided either way
isDependencyDecided(status) == status \in {"COMPLETED", "APPROVED", "REJECTED"}

isDependencySatisfied(status) == status = "COMPLETED" \/ status = "APPROVED"

CanRun(snapshot, node) ==
    \A dependencyId \in node.dependsOn :
        IF dependencyId \in DOMAIN snapshot.phases
        THEN isDependencySatisfied(snapshot.phases[dependencyId].status)
        ELSE FALSE

RECURSIVE unblockFrom(_, _, _)
\* the loop of unblockDependents from node i on
unblockFrom(snapshot, updatedPhaseId, i) ==
    IF i > Len(snapshot.nodes) THEN snapshot
    ELSE LET node == snapshot.nodes[i]
         IN  IF updatedPhaseId \notin node.dependsOn
                \/ node.status # "BLOCKED"
                \/ ~CanRun(snapshot, node)
             THEN unblockFrom(snapshot, updatedPhaseId, i + 1)
             ELSE unblockFrom(
                    [snapshot EXCEPT
                        !.nodes[i].status = "DRAFT",
                        !.phases = IF node.phaseId \in DOMAIN @
                                   THEN [@ EXCEPT ![node.phaseId].status = "DRAFT"]
                                   ELSE @],
                    updatedPhaseId, i + 1)

\* dependents left as they are
keepDependentsBlocked(snapshot, updatedPhaseId) == snapshot

\* dependents unblocked, and the dependents of those after them
unblockDependentsCascading(snapshot, updatedPhaseId) ==
    LET once == unblockFrom(snapshot, updatedPhaseId, 1)
        moved == {once.nodes[i].phaseId : i \in {j \in DOMAIN once.nodes :
                    snapshot.nodes[j].status = "BLOCKED" /\ once.nodes[j].status = "DRAFT"}}
        next(node) == node.status = "BLOCKED" /\ node.dependsOn \cap moved # {}
    IN  [once EXCEPT
            !.nodes = [i \in DOMAIN @ |->
                        IF next(@[i]) THEN [@[i] EXCEPT !.status = "DRAFT"] ELSE @[i]],
            !.phases = [q \in DOMAIN @ |->
                        IF \E i \in DOMAIN once.nodes :
                              once.nodes[i].phaseId = q /\ next(once.nodes[i])
                        THEN [@[q] EXCEPT !.status = "DRAFT"] ELSE @[q]]]

unblockDependents(snapshot, updatedPhaseId) == unblockFrom(snapshot, updatedPhaseId, 1)

\* the phases a call to unblockDependents moved from BLOCKED to DRAFT
UnblockedBy(before, after) ==
    {after.nodes[i].phaseId : i \in {j \in DOMAIN after.nodes :
        before.nodes[j].status = "BLOCKED" /\ after.nodes[j].status = "DRAFT"}}

\* workflow-events.ts.  A Set of listeners is the sequence of its members in
\* insertion order, which is the order in which it is iterated

Listeners == {"l1", "l2", "l3"}

\* the listeners that throw when they are invoked
ListenerThrows(listener) == listener = "l2"

ListenersOf(listeners, runId) ==
    IF runId \in DOMAIN listeners THEN listeners[runId] ELSE <<>>

Invocation(listener, event) == [listener |-> listener, event |-> event]

\* a registration into a list instead of a Set: a listener registered twice is
\* held twice
subscribeToRunEventsAppending(listeners, runId, listener) ==
    Put(listeners, runId, Append(ListenersOf(listeners, runId), listener))

subscribeToRunEvents(listeners, runId, listener) ==
    LET current == ListenersOf(listeners, runId)
    IN  Put(listeners, runId,
            IF \E i \in DOMAIN current : current[i] = listener THEN current
            ELSE Append(current, listener))

\* the function subscribeToRunEvents(runId, listener) returns
unsubscribe(listeners, runId, listener) ==
    IF runId \notin DOMAIN listeners THEN listeners
    ELSE LET left == SelectSeq(listeners[runId], LAMBDA l : l # listener)
         IN  IF left = <<>> THEN Remove(listeners, runId)
             ELSE Put(listeners, runId, left)

\* a delivery without the try around the listener: it ends at the first
\* listener that throws, and throws
notifyListenersUnguarded(listeners, event) ==
    LET current == ListenersOf(listeners, event.runId)
        faulty == {i \in DOMAIN current : ListenerThrows(current[i])}
        last == IF faulty = {} THEN Len(current)
                ELSE CHOOSE i \in faulty : \A j \in faulty : i <= j
    IN  [invoked |-> [i \in 1..last |-> Invocation(current[i], event)],
         thrown |-> IF faulty = {} THEN NoThrow ELSE "ListenerFailure"]

\* a delivery to the listeners of some run, whatever the run of the event
notifyListenersOfAnyRun(listeners, event) ==
    LET current == IF DOMAIN listeners = {} THEN <<>>
                   ELSE listeners[CHOOSE r \in DOMAIN listeners : TRUE]
    IN  [invoked |-> [i \in DOMAIN current |-> Invocation(current[i], event)],
         thrown |-> NoThrow]

\* the loop of publishWorkflowEvent: every listener of the event's run is
\* invoked, and what a listener throws is caught
notifyListeners(listeners, event) ==
    LET current == ListenersOf(listeners, event.runId)
    IN  [invoked |-> [i \in DOMAIN current |-> Invocation(current[i], event)],
         thrown |-> NoThrow]

\* published lists the events of the call; what a delivery throws, the call throws
publishWorkflowEvent(m, event) ==
    LET notified == notifyListeners(m.listeners, event)
    IN  [m EXCEPT !.published = Append(@, event),
                  !.delivered = @ \o notified.invoked,
                  !.thrown = notified.thrown]

PhaseUpdatedEvent(runId, clock, phaseId, attempt, previousStatus, status) ==
    [eventType |-> "phase_updated", runId |-> runId, emittedAt |-> clock,
     phaseId |-> phaseId, attempt |-> attempt,
     previousStatus |-> previousStatus, status |-> status]

\* a phase whose attempt counts every run of it, first start included
MutatePhaseCountingStarts(phase, action, nextStatus, nowIso) ==
    IF action \in {"START_PHASE", "RETRY_PHASE"}
    THEN [phase EXCEPT !.status = nextStatus, !.startedAt = nowIso, !.attempt = @ + 1,
                       !.error = Undefined, !.output = NoOutput, !.artifacts = <<>>]
    ELSE [phase EXCEPT !.status = nextStatus, !.finishedAt = nowIso]

MutatePhase(phase, action, nextStatus, nowIso) ==
    LET started == IF action \in {"START_PHASE", "RETRY_PHASE"}
                   THEN [phase EXCEPT !.status = nextStatus, !.startedAt = nowIso]
                   ELSE [phase EXCEPT !.status = nextStatus]
        finished == IF action \in {"APPROVE_PHASE", "REJECT_PHASE"}
                    THEN [started EXCEPT !.finishedAt = nowIso]
                    ELSE started
    IN  IF action = "RETRY_PHASE"
        THEN [finished EXCEPT !.attempt = @ + 1, !.error = Undefined,
                              !.output = NoOutput, !.artifacts = <<>>]
        ELSE finished

\* an action that stamps the run before it looks the phase up, and finds none
applyWorkflowActionStampingFirst(m0, request) ==
    LET m1 == ensureRun(m0, request.runId)
    IN  IF m1.thrown # NoThrow THEN m1
        ELSE Throw([m1 EXCEPT !.runs[request.runId].updatedAt = m1.clock],
                   "UnknownPhase")

\* an action that publishes its event before it saves the snapshot
applyWorkflowActionPublishingFirst(m0, request) ==
    IF request.action \notin MUTATING_ACTIONS THEN Throw(m0, "UnsupportedAction")
    ELSE
    LET m1 == ensureRun(m0, request.runId)
    IN  IF m1.thrown # NoThrow THEN m1
        ELSE IF request.phaseId \notin DOMAIN m1.runs[request.runId].phases
        THEN Throw(m1, "UnknownPhase")
        ELSE
        LET snapshot == m1.runs[request.runId]
            previousStatus == snapshot.phases[request.phaseId].status
            nextStatus == STATUS_TRANSITIONS(request.action)
            mutated == [snapshot EXCEPT
                !.phases[request.phaseId] = MutatePhase(@, request.action, nextStatus, m1.clock),
                !.nodes = updateNodeStatus(@, request.phaseId, nextStatus),
                !.updatedAt = m1.clock]
            unblocked == unblockDependents(mutated, request.phaseId)
            m2 == publishWorkflowEvent(
                    [m1 EXCEPT !.runs[request.runId] = unblocked,
                               !.unblocked = UnblockedBy(mutated, unblocked),
                               !.previousStatus = previousStatus],
                    PhaseUpdatedEvent(request.runId, m1.clock, request.phaseId,
                                      unblocked.phases[request.phaseId].attempt,
                                      previousStatus, nextStatus))
        IN  saveRunSnapshot(m2, unblocked)

applyWorkflowAction(m0, request) ==
    IF request.action \notin MUTATING_ACTIONS THEN Throw(m0, "UnsupportedAction")
    ELSE
    LET m1 == ensureRun(m0, request.runId)
    IN  IF m1.thrown # NoThrow THEN m1
        ELSE IF request.phaseId \notin DOMAIN m1.runs[request.runId].phases
        THEN Throw(m1, "UnknownPhase")
        ELSE
        LET snapshot == m1.runs[request.runId]
            phase == snapshot.phases[request.phaseId]
            previousStatus == phase.status
            nextStatus == STATUS_TRANSITIONS(request.action)
            nowIso == m1.clock
            mutated == [snapshot EXCEPT
                !.phases[request.phaseId] = MutatePhase(@, request.action, nextStatus, nowIso),
                !.nodes = updateNodeStatus(@, request.phaseId, nextStatus),
                !.updatedAt = nowIso]
            unblocked == unblockDependents(mutated, request.phaseId)
            m2 == saveRunSnapshot(
                    [m1 EXCEPT !.runs[request.runId] = unblocked,
                               !.unblocked = UnblockedBy(mutated, unblocked),
                               !.previousStatus = previousStatus],
                    unblocked)
        IN  IF m2.thrown # NoThrow THEN m2
            ELSE publishWorkflowEvent(m2,
                    PhaseUpdatedEvent(request.runId, nowIso, request.phaseId,
                                      unblocked.phases[request.phaseId].attempt,
                                      previousStatus, nextStatus))

ArtifactRef(stored) == [artifactId |-> stored.artifactId, kind |-> stored.kind]

RECURSIVE saveArtifacts(_, _, _, _)
\* the map over artifactPayloads in persistPhaseOutput, from payload i on; the
\* state m0 reached so far is evaluated once and named m
saveArtifacts(m0, params, attempt, i) ==
    CHOOSE saved \in
        {IF m.thrown # NoThrow \/ i > Len(params.artifactPayloads) THEN m
         ELSE saveArtifacts(
                 saveArtifact(m, [runId |-> params.runId, phaseId |-> params.phaseId,
                                  attempt |-> attempt,
                                  kind |-> params.artifactPayloads[i].kind,
                                  data |-> params.artifactPayloads[i].data]),
                 params, attempt, i + 1) : m \in {m0}} : TRUE

PhaseOutputReadyEvent(runId, clock, phaseId, createdRefs) ==
    [eventType |-> "phase_output_ready", runId |-> runId, emittedAt |-> clock,
     phaseId |-> phaseId, artifacts |-> createdRefs]

persistPhaseOutput(m0, params) ==
    LET m1 == ensureRun(m0, params.runId)
    IN  IF m1.thrown # NoThrow THEN m1
        ELSE IF params.phaseId \notin DOMAIN m1.runs[params.runId].phases
        THEN Throw(m1, "UnknownPhase")
        ELSE
        LET phase == m1.runs[params.runId].phases[params.phaseId]
            m2 == saveArtifacts(m1, params, phase.attempt, 1)
            created == SubSeq(m2.db.artifacts,
                              Len(m2.db.artifacts) - Len(params.artifactPayloads) + 1,
                              Len(m2.db.artifacts))
            createdRefs == [i \in DOMAIN created |-> ArtifactRef(created[i])]
        IN  IF m2.thrown # NoThrow THEN m2
            ELSE
            LET snapshot == [m2.runs[params.runId] EXCEPT
                    !.phases[params.phaseId].output = params.output,
                    !.phases[params.phaseId].artifacts = @ \o createdRefs,
                    !.updatedAt = m2.clock]
                m3 == saveRunSnapshot([m2 EXCEPT !.runs[params.runId] = snapshot], snapshot)
            IN  IF m3.thrown # NoThrow THEN m3
                ELSE publishWorkflowEvent(m3,
                        PhaseOutputReadyEvent(params.runId, snapshot.updatedAt,
                                              params.phaseId, createdRefs))

\* the listing served by GET .../phases/:phaseId/artifacts
getPhaseStoredArtifacts(runsNow, dbNow, runId, phaseId) ==
    IF phaseId \notin DOMAIN runsNow[runId].phases THEN <<>>
    ELSE listArtifactsForPhase(dbNow, runId, phaseId, runsNow[runId].phases[phaseId].attempt)

markPhase(m0, params, status, unblocks) ==
    LET m1 == ensureRun(m0, params.runId)
    IN  IF m1.thrown # NoThrow THEN m1
        ELSE IF params.phaseId \notin DOMAIN m1.runs[params.runId].phases
        THEN Throw(m1, "UnknownPhase")
        ELSE
        LET snapshot == m1.runs[params.runId]
            phase == snapshot.phases[params.phaseId]
            previousStatus == phase.status
            nowIso == m1.clock
            mutated == [snapshot EXCEPT
                !.phases[params.phaseId].status = status,
                !.phases[params.phaseId].finishedAt = nowIso,
                !.nodes = updateNodeStatus(@, params.phaseId, status),
                !.updatedAt = nowIso]
            unblocked == IF unblocks THEN unblockDependents(mutated, params.phaseId)
                         ELSE mutated
            m2 == saveRunSnapshot(
                    [m1 EXCEPT !.runs[params.runId] = unblocked,
                               !.unblocked = UnblockedBy(mutated, unblocked),
                               !.previousStatus = previousStatus],
                    unblocked)
        IN  IF m2.thrown # NoThrow THEN m2
            ELSE publishWorkflowEvent(m2,
                    PhaseUpdatedEvent(params.runId, nowIso, params.phaseId,
                                      phase.attempt, previousStatus, status))

markPhaseReadyForReview(m, params) == markPhase(m, params, "READY_FOR_REVIEW", FALSE)

\* a completion that leaves the phase to be reviewed
markPhaseCompletedForReview(m, params) == markPhase(m, params, "READY_FOR_REVIEW", TRUE)

markPhaseCompleted(m, params) == markPhase(m, params, "COMPLETED", TRUE)

\* workflow-contract.ts: the response of an action, and what a client makes of
\* it.  The result is a document and whether it is the very object given
ActionResponse(accepted, runId, phaseId, status) ==
    [accepted |-> accepted, runId |-> runId, phaseId |-> phaseId, status |-> status]

\* a client update that sets the status of the phase and leaves the node
applyActionResponseToPhaseOnly(snapshot, response) ==
    IF ~response.accepted THEN shareSnapshot(snapshot)
    ELSE [cloneSnapshot(snapshot) EXCEPT
            !.doc.phases = IF response.phaseId \in DOMAIN @
                           THEN [@ EXCEPT ![response.phaseId].status = response.status]
                           ELSE @]

applyActionResponse(snapshot, response) ==
    IF ~response.accepted THEN shareSnapshot(snapshot)
    ELSE [cloneSnapshot(snapshot) EXCEPT
            !.doc.nodes = IF IndexOfNode(@, response.phaseId) # 0
                          THEN updateNodeStatus(@, response.phaseId, response.status)
                          ELSE @,
            !.doc.phases = IF response.phaseId \in DOMAIN @
                           THEN [@ EXCEPT ![response.phaseId].status = response.status]
                           ELSE @]

\* getWorkflowSnapshot returns cloneSnapshot(m.runs[runId]) of the result
\* a read that stamps the run it returns
getWorkflowSnapshotStamping(m, runId) ==
    LET m1 == ensureRun(m, runId)
    IN  IF m1.thrown # NoThrow THEN m1
        ELSE [m1 EXCEPT !.runs[runId].updatedAt = m1.clock]

getWorkflowSnapshot(m, runId) == ensureRun(m, runId)

\* a reset that clears the store and leaves the cached run in the registry
resetWorkflowRunKeepingCache(m0, runId) ==
    LET m1 == deleteRunData(m0, runId)
    IN  IF m1.thrown # NoThrow THEN m1 ELSE getWorkflowSnapshot(m1, runId)

resetWorkflowRun(m0, runId) ==
    LET m1 == deleteRunData([m0 EXCEPT !.runs = Remove(@, runId)], runId)
    IN  IF m1.thrown # NoThrow THEN m1 ELSE getWorkflowSnapshot(m1, runId)

----------------------------------------------------------------------------
(* The store's directory as the processes that write it see it, step by step *)
(* (workflow-db.ts).  A document is the pair of the run ids and the artifact *)
(* ids it holds.  A file written by writeFileSync is partial from the moment *)
(* it is opened until the write completes.                                    *)

Procs == {"p1", "p2"}

NoHolder == "none"

EmptyDocument == [runs |-> {}, artifacts |-> {}]

MissingFile == [state |-> "missing", doc |-> EmptyDocument]

PartialFile == [state |-> "partial", doc |-> EmptyDocument]

CompleteFile(doc) == [state |-> "complete", doc |-> doc]

\* file: DB_PATH; lock: the process that made DB_LOCK_PATH, if it exists;
\* temp: the temporary file of each process; committed: the document that the
\* writes renamed so far yield when they are applied one after the other;
\* crashes: the crashes so far
NoDisk ==
    [file |-> MissingFile, lock |-> NoHolder, temp |-> [p \in Procs |-> MissingFile],
     committed |-> EmptyDocument, crashes |-> 0]

IdleProcess(outcome) ==
    [pc |-> "idle", op |-> "none", local |-> EmptyDocument, waited |-> 0,
     outcome |-> outcome]

NoProcs == [p \in Procs |-> IdleProcess("none")]

WriterOps == {"saveRunSnapshot", "saveArtifact", "deleteRunData"}

\* the function each writer passes to withDbLock, for the run r1; the artifact
\* a process saves is named after the process
fn(op, p, doc) ==
    CASE op = "saveRunSnapshot" -> [doc EXCEPT !.runs = @ \cup {"r1"}]
      [] op = "saveArtifact"    -> [doc EXCEPT !.artifacts = @ \cup {p}]
      [] op = "deleteRunData"   -> [runs |-> doc.runs \ {"r1"}, artifacts |-> {}]

\* a lock directory that any number of processes can make
lockIsAlwaysFree(d) == TRUE

\* mkdirSync(DB_LOCK_PATH) succeeds when the directory does not exist
lockIsFree(d) == d.lock = NoHolder

\* Date.now() - started > maxWaitMs, counted in sleeps
timedOut(waited) == waited > MaxWaits

\* a section that removes the lock directory only when it returns
leaveSectionOnReturn(d, threw) == IF threw THEN d ELSE [d EXCEPT !.lock = NoHolder]

\* the finally of withDbLock: rmSync(DB_LOCK_PATH)
leaveSection(d, threw) == [d EXCEPT !.lock = NoHolder]

----------------------------------------------------------------------------
(* State and engine calls *)

EmptyMap == [k \in {} |-> Undefined]

NoCall ==
    [op |-> "none", runId |-> Undefined, phaseId |-> Undefined, action |-> Undefined,
     thrown |-> NoThrow, previousStatus |-> Undefined, unblocked |-> {},
     listener |-> Undefined]

\* fetches counts the getWorkflowSnapshot calls made in a row, with no other engine
\* call in between; mutatedBefore tells that the document of the previous one of
\* them had been written to by the caller
NoClient ==
    [held |-> FALSE, runId |-> Undefined, returned |-> Undefined, doc |-> Undefined,
     alias |-> FALSE, mutated |-> FALSE, fetches |-> 0, mutatedBefore |-> FALSE]

NoServed ==
    [held |-> FALSE, runId |-> Undefined, phaseId |-> Undefined, attempt |-> NoAttempt,
     items |-> <<>>]

Init ==
    /\ runs = EmptyMap
    /\ db = [runs |-> EmptyMap, artifacts |-> <<>>]
    /\ now = 0
    /\ artSeq = 0
    /\ published = <<>>
    /\ lastCall = NoCall
    /\ client = NoClient
    /\ requests = <<>>
    /\ served = NoServed
    /\ runListeners = EmptyMap
    /\ delivered = <<>>
    /\ streams = EmptyMap
    /\ disk = NoDisk
    /\ procs = NoProcs

\* failAt = 0: every lock acquisition of the call succeeds; failAt = k: its k-th
\* withDbLock call times out.  A timeout is chosen only where the call gets there
Reaches(m) == m.failAt = 0 \/ m.thrown = "LockTimeout"

\* the effect of a finished (returned or thrown) engine call on the state
Finish(m, op, runId, phaseId, action) ==
    /\ Reaches(m)
    /\ runs' = m.runs
    /\ db' = m.db
    /\ artSeq' = m.artSeq
    /\ published' = m.published
    /\ delivered' = m.delivered
    /\ UNCHANGED <<streams, disk, procs>>
    /\ UNCHANGED runListeners
    /\ now' = now + 1
    /\ lastCall' = [op |-> op, runId |-> runId, phaseId |-> phaseId, action |-> action,
                    thrown |-> m.thrown, previousStatus |-> m.previousStatus,
                    unblocked |-> m.unblocked, listener |-> Undefined]

ApplyWorkflowAction(runId, phaseId, action, failAt) ==
    /\ Finish(applyWorkflowAction(Call(runs, db, artSeq, now, failAt),
                                  [action |-> action, runId |-> runId, phaseId |-> phaseId]),
              "applyWorkflowAction", runId, phaseId, action)
    /\ served' = NoServed /\ UNCHANGED <<client, requests>>

MarkPhaseCompleted(runId, phaseId, failAt) ==
    /\ Finish(markPhaseCompleted(Call(runs, db, artSeq, now, failAt),
                                 [runId |-> runId, phaseId |-> phaseId]),
              "markPhaseCompleted", runId, phaseId, Undefined)
    /\ served' = NoServed /\ UNCHANGED <<client, requests>>

MarkPhaseReadyForReview(runId, phaseId, failAt) ==
    /\ Finish(markPhaseReadyForReview(Call(runs, db, artSeq, now, failAt),
                                      [runId |-> runId, phaseId |-> phaseId]),
              "markPhaseReadyForReview", runId, phaseId, Undefined)
    /\ served' = NoServed /\ UNCHANGED <<client, requests>>

PersistPhaseOutput(runId, phaseId, output, artifactPayloads, failAt) ==
    /\ Finish(persistPhaseOutput(Call(runs, db, artSeq, now, failAt),
                                 [runId |-> runId, phaseId |-> phaseId, output |-> output,
                                  artifactPayloads |-> artifactPayloads]),
              "persistPhaseOutput", runId, phaseId, Undefined)
    /\ served' = NoServed /\ UNCHANGED <<client, requests>>

ResetWorkflowRun(runId, failAt) ==
    /\ Finish(resetWorkflowRun(Call(runs, db, artSeq, now, failAt), runId),
              "resetWorkflowRun", runId, Undefined, Undefined)
    /\ served' = NoServed /\ UNCHANGED <<client, requests>>

GetWorkflowSnapshot(runId, failAt) ==
    /\ LET m == getWorkflowSnapshot(Call(runs, db, artSeq, now, failAt), runId)
       IN  /\ Finish(m, "getWorkflowSnapshot", runId, Undefined, Undefined)
           /\ client' = IF m.thrown # NoThrow THEN client
                        ELSE LET copy == cloneSnapshot(m.runs[runId])
                                 again == /\ lastCall.op = "getWorkflowSnapshot"
                                          /\ lastCall.thrown = NoThrow
                                          /\ lastCall.runId = runId
                             IN  [held |-> TRUE, runId |-> runId, returned |-> copy.doc,
                                  doc |-> copy.doc, alias |-> copy.alias, mutated |-> FALSE,
                                  fetches |-> IF again THEN client.fetches + 1 ELSE 1,
                                  mutatedBefore |-> again /\ client.mutated]
    /\ served' = NoServed /\ UNCHANGED requests

\* resetWorkflowEngineCache: the process starts over with an empty registry
ResetWorkflowEngineCache ==
    /\ runs # EmptyMap
    /\ runs' = EmptyMap
    /\ lastCall' = [NoCall EXCEPT !.op = "resetWorkflowEngineCache"]
    /\ published' = <<>>
    /\ served' = NoServed
    /\ UNCHANGED <<db, now, artSeq, client, requests, runListeners, delivered, streams, disk, procs>>

\* the caller writes into the document getWorkflowSnapshot gave it; the write
\* reaches the engine's run object only if the document shares it
ClientMutate(phaseId) ==
    /\ client.held /\ ~client.mutated
    /\ client' = [client EXCEPT !.doc.phases[phaseId].status = "ERROR_STATUS",
                                !.doc.phases[phaseId].artifacts = <<>>,
                                !.mutated = TRUE]
    /\ runs' = IF client.alias /\ client.runId \in DOMAIN runs
               THEN [runs EXCEPT ![client.runId].phases[phaseId].status = "ERROR_STATUS",
                                 ![client.runId].phases[phaseId].artifacts = <<>>]
               ELSE runs
    /\ UNCHANGED <<db, now, artSeq, published, lastCall, requests, served,
                   runListeners, delivered, streams, disk, procs>>

ArtifactPayload(kind, field, output) ==
    [kind |-> kind, data |-> [field |-> field, of |-> output]]

ArtifactPayloadInputs(output) == {<<>>, <<ArtifactPayload("diff", "diff", output)>>}

\* The engine's callers: any call, on any phase, with any lock outcome

CallApplyWorkflowAction ==
    /\ now < MaxClock
    /\ \E r \in RunIds, p \in PhaseIdInputs, a \in MUTATING_ACTIONS, f \in 0..2 :
          ApplyWorkflowAction(r, p, a, f)

CallMarkPhaseCompleted ==
    /\ now < MaxClock
    /\ \E r \in RunIds, p \in PhaseIdInputs, f \in 0..2 : MarkPhaseCompleted(r, p, f)

CallMarkPhaseReadyForReview ==
    /\ now < MaxClock
    /\ \E r \in RunIds, p \in PhaseIdInputs, f \in 0..2 : MarkPhaseReadyForReview(r, p, f)

CallPersistPhaseOutput ==
    /\ now < MaxClock
    /\ \E r \in RunIds, p \in PhaseIdInputs, o \in Outputs, f \in 0..3 :
          \E payloads \in ArtifactPayloadInputs(o) :
              PersistPhaseOutput(r, p, o, payloads, f)

CallResetWorkflowRun ==
    /\ now < MaxClock
    /\ \E r \in RunIds, f \in 0..2 : ResetWorkflowRun(r, f)

CallGetWorkflowSnapshot ==
    /\ now < MaxClock
    /\ \E r \in RunIds, f \in 0..1 : GetWorkflowSnapshot(r, f)

CallClientMutate == \E p \in {"phase_a"} : ClientMutate(p)

Next ==
    \/ CallApplyWorkflowAction
    \/ CallMarkPhaseCompleted
    \/ CallMarkPhaseReadyForReview
    \/ CallPersistPhaseOutput
    \/ CallResetWorkflowRun
    \/ CallGetWorkflowSnapshot
    \/ ResetWorkflowEngineCache
    \/ CallClientMutate

Spec == Init /\ [][Next]_vars

----------------------------------------------------------------------------
(* workflow-http.ts: handleActionRequest on the LLM phases.  The handler     *)
(* runs to its await of callLlmForPhase in one step and from the return of   *)
(* that call to its response in another; requests interleave at the await.   *)

\* the phases whose requests take the generic generation path
LlmPhaseIds == {p \in PhaseIds : PhaseType(p) = "LLM"}

requiresLlmPhaseExecution(phaseType) == phaseType = "LLM"

isContextInitPhase(phaseId, phaseType) == phaseId = "phase_a"

shouldExecuteLlm(action, phaseId, phaseType) ==
    IF ~(action = "START_PHASE" \/ action = "RETRY_PHASE") THEN FALSE
    ELSE IF phaseId = "phase_e" THEN action = "RETRY_PHASE"
    ELSE requiresLlmPhaseExecution(phaseType) \/ isContextInitPhase(phaseId, phaseType)

ActionRequest(runId, phaseId, action) ==
    [action |-> action, runId |-> runId, phaseId |-> phaseId]

\* stage "llm": awaiting callLlmForPhase; forAttempt is the attempt of the phase
\* when the generation was asked for; applied tells that actionResult is set
RequestRecord(runId, phaseId, action, stage, code, forAttempt, applied) ==
    [runId |-> runId, phaseId |-> phaseId, action |-> action, stage |-> stage,
     code |-> code, forAttempt |-> forAttempt, applied |-> applied]

GeneratedPayloads(output, hasUiCode) ==
    <<ArtifactPayload("json", "uiSchema", output)>>
    \o (IF hasUiCode THEN <<ArtifactPayload("json", "uiCode", output)>> ELSE <<>>)
    \o <<ArtifactPayload("diff", "diff", output),
         ArtifactPayload("rubric", "rubricResults", output),
         ArtifactPayload("json", "output", output)>>

\* handleActionRequest up to the await of callLlmForPhase, or to its response
\* when the action calls for no generation: 500 when the first snapshot read
\* throws, 404 when the action does
HandleActionRequest(runId, phaseId, action, failAt) ==
    LET callLlm == shouldExecuteLlm(action, phaseId, PhaseType(phaseId))
        request == ActionRequest(runId, phaseId, action)
    IN  \E m1 \in {getWorkflowSnapshot(Call(runs, db, artSeq, now, failAt), runId)} :
        \E m2 \in {IF m1.thrown = NoThrow /\ action = "RETRY_PHASE" /\ callLlm
                   THEN applyWorkflowAction(m1, request) ELSE m1} :
        \E m3 \in {IF m2.thrown # NoThrow THEN m2
                   ELSE IF callLlm THEN getWorkflowSnapshot(m2, runId)
                   ELSE applyWorkflowAction(m2, request)} :
            /\ Finish(m3, "handleActionRequest", runId, phaseId, action)
            /\ requests' = Append(requests,
                  IF m3.thrown = NoThrow /\ callLlm
                  THEN RequestRecord(runId, phaseId, action, "llm", 0,
                                     m3.runs[runId].phases[phaseId].attempt,
                                     action = "RETRY_PHASE")
                  ELSE RequestRecord(runId, phaseId, action, "done",
                                     IF m3.thrown = NoThrow THEN 200
                                     ELSE IF m1.thrown # NoThrow THEN 500 ELSE 404,
                                     NoAttempt, m3.thrown = NoThrow))
            /\ served' = NoServed /\ UNCHANGED client

\* handleActionRequest from the return of callLlmForPhase, with the generated
\* content of request i, to its response
CallLlmForPhaseReturns(i, hasUiCode, failAt) ==
    LET request == requests[i]
        output == PhaseOutput(request.phaseId, i, request.forAttempt)
        apply(m, action) ==
            applyWorkflowAction(m, ActionRequest(request.runId, request.phaseId, action))
    IN  /\ request.stage = "llm"
        /\ \E m1 \in {persistPhaseOutput(Call(runs, db, artSeq, now, failAt),
                        [runId |-> request.runId, phaseId |-> request.phaseId,
                         output |-> output,
                         artifactPayloads |-> GeneratedPayloads(output, hasUiCode)])} :
           \E m2 \in {IF m1.thrown = NoThrow /\ ~request.applied
                      THEN apply(m1, request.action) ELSE m1} :
           \E m3 \in {IF m2.thrown = NoThrow THEN apply(m2, "APPROVE_PHASE") ELSE m2} :
              /\ Finish(m3, "callLlmForPhase", request.runId, request.phaseId, request.action)
              /\ requests' = [requests EXCEPT
                    ![i].stage = "done",
                    ![i].code = IF m3.thrown = NoThrow THEN 200 ELSE 502]
        /\ served' = NoServed /\ UNCHANGED client

\* callLlmForPhase throws: the handler answers 502 and touches nothing
CallLlmForPhaseThrows(i) ==
    /\ requests[i].stage = "llm"
    /\ requests' = [requests EXCEPT ![i].stage = "done", ![i].code = 502]
    /\ now' = now + 1
    /\ lastCall' = [NoCall EXCEPT !.op = "callLlmForPhase", !.runId = requests[i].runId,
                                  !.phaseId = requests[i].phaseId,
                                  !.action = requests[i].action, !.thrown = "LlmFailure"]
    /\ published' = <<>>
    /\ served' = NoServed
    /\ UNCHANGED <<runs, db, artSeq, client, runListeners, delivered, streams, disk, procs>>

\* GET /runs/:runId/phases/:phaseId/artifacts
GetPhaseStoredArtifacts(runId, phaseId, failAt) ==
    LET m == ensureRun(Call(runs, db, artSeq, now, failAt), runId)
    IN  /\ Reaches(m)
        /\ runs' = m.runs
        /\ db' = m.db
        /\ served' = IF m.thrown # NoThrow THEN served
                     ELSE [held |-> TRUE, runId |-> runId, phaseId |-> phaseId,
                           attempt |-> IF phaseId \in DOMAIN m.runs[runId].phases
                                       THEN m.runs[runId].phases[phaseId].attempt
                                       ELSE NoAttempt,
                           items |-> getPhaseStoredArtifacts(m.runs, m.db, runId, phaseId)]
        /\ UNCHANGED <<now, artSeq, published, lastCall, client, requests,
                       runListeners, delivered, streams, disk, procs>>

ReceiveActionRequest ==
    /\ Len(requests) < MaxRequests
    /\ \E r \in RunIds, p \in LlmPhaseIds, a \in MUTATING_ACTIONS, f \in 0..2 :
          HandleActionRequest(r, p, a, f)

LlmReturns ==
    \E i \in DOMAIN requests, hasUiCode \in BOOLEAN, f \in 0..2 :
        CallLlmForPhaseReturns(i, hasUiCode, f)

LlmThrows == \E i \in DOMAIN requests : CallLlmForPhaseThrows(i)

ServeArtifacts ==
    \E r \in RunIds, p \in LlmPhaseIds, f \in 0..1 : GetPhaseStoredArtifacts(r, p, f)

NextHttp ==
    \/ ReceiveActionRequest
    \/ LlmReturns
    \/ LlmThrows
    \/ ServeArtifacts

SpecHttp == Init /\ [][NextHttp]_vars

\* POST /runs/:runId/reset; the reset is recorded among the requests, in the
\* order in which the server took them
PostReset(runId, failAt) ==
    \E m \in {resetWorkflowRun(Call(runs, db, artSeq, now, failAt), runId)} :
        /\ Finish(m, "resetWorkflowRun", runId, Undefined, Undefined)
        /\ requests' = Append(requests,
              RequestRecord(runId, Undefined, "RESET", "done",
                            IF m.thrown = NoThrow THEN 200 ELSE 500, NoAttempt, FALSE))
        /\ served' = NoServed /\ UNCHANGED client

ReceiveReset ==
    /\ Len(requests) < MaxRequests
    /\ \E r \in RunIds, f \in 0..2 : PostReset(r, f)

NextReset ==
    \/ NextHttp
    \/ ReceiveReset

SpecReset == Init /\ [][NextReset]_vars

----------------------------------------------------------------------------
(* handleActionRequest on START_PHASE of phase_a: the context is generated,  *)
(* phase_a approved, and one generation per permutation launched through     *)
(* callLlmBatch.  The handler is split at its two awaits.                    *)

\* the branchFactor values of the payload that are explored
BranchFactors == {2, 3}

Min(a, b) == IF a < b THEN a ELSE b

Max(a, b) == IF a > b THEN a ELSE b

\* the first permutation generates phase_b, the last phase_c, the ones between
\* generate a detached variant of no phase
PermutationSpec(index, factor) ==
    LET phaseId == IF index = 0 THEN "phase_b"
                   ELSE IF index = factor - 1 THEN "phase_c" ELSE Undefined
    IN  [variantId |-> IF phaseId # Undefined THEN phaseId
                       ELSE <<"phase_variant_1", "phase_variant_2", "phase_variant_3",
                              "phase_variant_4", "phase_variant_5", "phase_variant_6",
                              "phase_variant_7", "phase_variant_8">>[index + 1],
         index |-> index, total |-> factor, phaseId |-> phaseId]

buildPermutationSpecs(branchFactor) ==
    LET factor == Min(8, Max(2, branchFactor))
    IN  [i \in 1..factor |-> PermutationSpec(i - 1, factor)]

\* a request of the fan-out: RequestRecord, with the permutations launched, the
\* outcome of each (TRUE: SUCCESS) and the two lists of the response
FanoutRecord(request, stage, code, permutations, results, started, errors) ==
    [runId |-> request.runId, phaseId |-> request.phaseId, action |-> request.action,
     stage |-> stage, code |-> code, forAttempt |-> request.forAttempt,
     applied |-> TRUE, permutations |-> permutations, results |-> results,
     autoStartedPhases |-> started, autoStartErrors |-> errors]

\* an entry of generatedVariants: the output of a succeeded permutation is the
\* generated one, that of a failed one a placeholder that carries no generated
\* content, and an entry of the pending output has none
GeneratedVariant(permutation, status, output) ==
    [variantId |-> permutation.variantId, status |-> status, output |-> output]

\* the output persisted on phase_d: the variants launched, or generated
CompareOutput(variantId, request, variants) ==
    [PhaseOutput(variantId, request, NoAttempt) EXCEPT !.generatedVariants = variants]

\* The body of permutationResults.forEach, engine call by engine call.  acc is
\* the accumulator of the handler: the engine calls so far, autoStartedPhases,
\* autoStartErrors and generatedVariants

\* a succeeded permutation of a phase makes three engine calls
startsPhase(acc, permutation, success) ==
    acc.m.thrown = NoThrow /\ success /\ permutation.phaseId # Undefined

startPermutationPhase(acc, runId, i, permutation, success) ==
    IF ~startsPhase(acc, permutation, success) THEN acc
    ELSE [acc EXCEPT !.m = applyWorkflowAction(@,
                ActionRequest(runId, permutation.phaseId, "START_PHASE"))]

persistPermutationOutput(acc, runId, i, permutation, success) ==
    LET output == PhaseOutput(permutation.variantId, i, NoAttempt)
    IN  IF ~startsPhase(acc, permutation, success) THEN acc
        ELSE [acc EXCEPT !.m = persistPhaseOutput(@,
                    [runId |-> runId, phaseId |-> permutation.phaseId,
                     output |-> output,
                     artifactPayloads |-> GeneratedPayloads(output, FALSE)])]

\* a forEach body that gives up at the first failed permutation
recordPermutationResultStoppingAtFailure(acc, runId, i, permutation, success) ==
    IF acc.m.thrown # NoThrow THEN acc
    ELSE IF ~success THEN [acc EXCEPT !.m = Throw(@, "LlmFailure")]
    ELSE IF permutation.phaseId = Undefined
    THEN [acc EXCEPT
            !.generatedVariants = Append(@, GeneratedVariant(permutation, "APPROVED",
                   PhaseOutput(permutation.variantId, i, NoAttempt)))]
    ELSE
    LET m3 == applyWorkflowAction(acc.m,
                 ActionRequest(runId, permutation.phaseId, "APPROVE_PHASE"))
    IN  [acc EXCEPT
           !.m = m3,
           !.autoStartedPhases =
               IF m3.thrown = NoThrow THEN Append(@, permutation.phaseId) ELSE @,
           !.generatedVariants =
               IF m3.thrown = NoThrow
               THEN Append(@, GeneratedVariant(permutation, "APPROVED",
                   PhaseOutput(permutation.variantId, i, NoAttempt))) ELSE @]

\* a forEach body that leaves a failed permutation out of generatedVariants
recordPermutationResultDroppingFailures(acc, runId, i, permutation, success) ==
    IF acc.m.thrown # NoThrow THEN acc
    ELSE IF ~success
    THEN [acc EXCEPT !.autoStartErrors = Append(@, permutation.variantId)]
    ELSE IF permutation.phaseId = Undefined
    THEN [acc EXCEPT
            !.generatedVariants = Append(@, GeneratedVariant(permutation, "APPROVED",
                   PhaseOutput(permutation.variantId, i, NoAttempt)))]
    ELSE
    LET m3 == applyWorkflowAction(acc.m,
                 ActionRequest(runId, permutation.phaseId, "APPROVE_PHASE"))
    IN  [acc EXCEPT
           !.m = m3,
           !.autoStartedPhases =
               IF m3.thrown = NoThrow THEN Append(@, permutation.phaseId) ELSE @,
           !.generatedVariants =
               IF m3.thrown = NoThrow
               THEN Append(@, GeneratedVariant(permutation, "APPROVED",
                   PhaseOutput(permutation.variantId, i, NoAttempt))) ELSE @]

\* the approval of the started phase, and what the handler notes of the result
recordPermutationResult(acc, runId, i, permutation, success) ==
    IF acc.m.thrown # NoThrow THEN acc
    ELSE IF ~success
    THEN [acc EXCEPT
            !.autoStartErrors = Append(@, permutation.variantId),
            !.generatedVariants = Append(@, GeneratedVariant(permutation, "ERROR_STATUS",
                   PhaseOutput(permutation.variantId, 0, NoAttempt)))]
    ELSE IF permutation.phaseId = Undefined
    THEN [acc EXCEPT
            !.generatedVariants = Append(@, GeneratedVariant(permutation, "APPROVED",
                   PhaseOutput(permutation.variantId, i, NoAttempt)))]
    ELSE
    LET m3 == applyWorkflowAction(acc.m,
                 ActionRequest(runId, permutation.phaseId, "APPROVE_PHASE"))
    IN  [acc EXCEPT
           !.m = m3,
           !.autoStartedPhases =
               IF m3.thrown = NoThrow THEN Append(@, permutation.phaseId) ELSE @,
           !.generatedVariants =
               IF m3.thrown = NoThrow
               THEN Append(@, GeneratedVariant(permutation, "APPROVED",
                   PhaseOutput(permutation.variantId, i, NoAttempt))) ELSE @]

\* the three steps on one result, each on the state the one before has reached
applyPermutationResult(acc, runId, i, permutation, success) ==
    CHOOSE recorded \in
        {recordPermutationResult(persisted, runId, i, permutation, success) :
            persisted \in
                {persistPermutationOutput(started, runId, i, permutation, success) :
                    started \in
                        {startPermutationPhase(acc, runId, i, permutation, success)}}} :
        TRUE

RECURSIVE forEachPermutationResult(_, _, _, _, _)
\* permutationResults.forEach, from result k on; the accumulator acc0 reached so
\* far is evaluated once and named acc
forEachPermutationResult(acc0, request, i, results, k) ==
    CHOOSE done \in
        {IF k > Len(request.permutations) THEN acc
         ELSE forEachPermutationResult(
                 applyPermutationResult(acc, request.runId, i,
                                        request.permutations[k], results[k]),
                 request, i, results, k + 1) : acc \in {acc0}} : TRUE

\* from the return of callLlmForPhase on the context to the await of callLlmBatch
ContextInitReturns(i, hasUiCode, branchFactor, failAt) ==
    LET request == requests[i]
        output == PhaseOutput("context_v0", i, request.forAttempt)
        permutations == buildPermutationSpecs(branchFactor)
        pending == CompareOutput("phase_d_compare_pending", i,
                      [k \in DOMAIN permutations |->
                          GeneratedVariant(permutations[k], "RUNNING", NoOutput)])
    IN  /\ request.stage = "llm"
        /\ \E m1 \in {persistPhaseOutput(Call(runs, db, artSeq, now, failAt),
                        [runId |-> request.runId, phaseId |-> request.phaseId,
                         output |-> output,
                         artifactPayloads |->
                            <<ArtifactPayload("json", "contextArtifact", output)>>
                            \o GeneratedPayloads(output, hasUiCode)])} :
           \E m2 \in {IF m1.thrown # NoThrow THEN m1
                      ELSE applyWorkflowAction(m1,
                              ActionRequest(request.runId, request.phaseId,
                                            "APPROVE_PHASE"))} :
           \E m3 \in {IF m2.thrown # NoThrow THEN m2
                      ELSE persistPhaseOutput(m2,
                              [runId |-> request.runId, phaseId |-> "phase_d",
                               output |-> pending, artifactPayloads |-> <<>>])} :
              /\ Finish(m3, "callLlmForPhase", request.runId, request.phaseId,
                        request.action)
              /\ requests' = [requests EXCEPT ![i] =
                    IF m3.thrown = NoThrow
                    THEN FanoutRecord(request, "batch", 0, permutations, <<>>, <<>>, <<>>)
                    ELSE FanoutRecord(request, "done", 502, permutations, <<>>, <<>>, <<>>)]
        /\ served' = NoServed /\ UNCHANGED client

\* from the return of callLlmBatch, with the outcome of every permutation, to
\* the response
CallLlmBatchReturns(i, results, failAt) ==
    LET request == requests[i]
        permutations == request.permutations
        compareOutput(acc) == CompareOutput("phase_d_compare", i, acc.generatedVariants)
    IN  /\ request.stage = "batch"
        /\ \E a3 \in {forEachPermutationResult(
                          [m |-> Call(runs, db, artSeq, now, failAt),
                           autoStartedPhases |-> <<>>, autoStartErrors |-> <<>>,
                           generatedVariants |-> <<>>],
                          request, i, results, 1)} :
           \E m \in {IF a3.m.thrown # NoThrow \/ Len(a3.generatedVariants) = 0 THEN a3.m
                     ELSE persistPhaseOutput(a3.m,
                             [runId |-> request.runId, phaseId |-> "phase_d",
                              output |-> compareOutput(a3),
                              artifactPayloads |->
                                 <<ArtifactPayload("json", "generatedVariants",
                                                   compareOutput(a3))>>])} :
              /\ Finish(m, "callLlmBatch", request.runId, request.phaseId, request.action)
              /\ requests' = [requests EXCEPT ![i] =
                    IF m.thrown = NoThrow
                    THEN FanoutRecord(request, "done", 200, permutations, results,
                                      a3.autoStartedPhases, a3.autoStartErrors)
                    ELSE FanoutRecord(request, "done", 502, permutations, results,
                                      <<>>, <<>>)]
        /\ served' = NoServed /\ UNCHANGED client

\* callLlmBatch throws: the handler answers 502, and keeps what it has written
CallLlmBatchThrows(i) ==
    LET request == requests[i]
    IN  /\ request.stage = "batch"
        /\ requests' = [requests EXCEPT ![i] =
              FanoutRecord(request, "done", 502, request.permutations, <<>>, <<>>, <<>>)]
        /\ now' = now + 1
        /\ lastCall' = [NoCall EXCEPT !.op = "callLlmBatch", !.runId = request.runId,
                                      !.phaseId = request.phaseId,
                                      !.action = request.action, !.thrown = "LlmFailure"]
        /\ published' = <<>>
        /\ served' = NoServed
        /\ UNCHANGED <<runs, db, artSeq, client, runListeners, delivered, streams, disk, procs>>

ReceiveContextInit ==
    /\ Len(requests) < MaxFanouts
    /\ \E r \in RunIds, f \in 0..2 : HandleActionRequest(r, "phase_a", "START_PHASE", f)

ContextReturns ==
    \E i \in DOMAIN requests, hasUiCode \in BOOLEAN, b \in BranchFactors, f \in 0..2 :
        ContextInitReturns(i, hasUiCode, b, f)

BatchReturns ==
    \E i \in DOMAIN requests, f \in 0..2 :
        /\ requests[i].stage = "batch"
        /\ \E results \in [DOMAIN requests[i].permutations -> BOOLEAN] :
              CallLlmBatchReturns(i, results, f)

BatchThrows == \E i \in DOMAIN requests : CallLlmBatchThrows(i)

NextFanout ==
    \/ ReceiveContextInit
    \/ ContextReturns
    \/ LlmThrows
    \/ BatchReturns
    \/ BatchThrows
    \/ ServeArtifacts

SpecFanout == Init /\ [][NextFanout]_vars

----------------------------------------------------------------------------
(* llm-client.ts: callLlmBatch.  The generations of a batch settle one by    *)
(* one, in any order; the batch returns one result per item, and the handler *)
(* goes through the results in the order of the returned array.              *)

\* the settlement of the generation of item index: TRUE is SUCCESS
Settlement(index, key, success) == [index |-> index, key |-> key, success |-> success]

BatchResult(key, success) == [key |-> key, success |-> success]

\* the keys of the items the handler passes to callLlmBatch
BatchItemKeys(permutations) == [k \in DOMAIN permutations |-> permutations[k].variantId]

\* the settlements of the batch a request awaits, in the order they happened
Settled(request) == IF "settled" \in DOMAIN request THEN request.settled ELSE <<>>

\* the key of the generation that settled first, which the answered request
\* keeps of the order
FirstSettled(request) ==
    IF Settled(request) = <<>> THEN Undefined ELSE Settled(request)[1].key

\* a batch that returns its results in the order in which they settled
callLlmBatchInSettleOrder(keys, settled) ==
    [s \in DOMAIN settled |-> BatchResult(settled[s].key, settled[s].success)]

\* Promise.allSettled: the result at an index is that of the promise at that
\* index, whenever it settled
callLlmBatchDirect(keys, settled) ==
    [k \in DOMAIN keys |->
        BatchResult(keys[k],
            settled[CHOOSE s \in DOMAIN settled : settled[s].index = k].success)]

\* the tasks of the backend's answer are looked up by key; an item with no task
\* is a FAILURE
callLlmBatchViaPythonBackend(keys, tasks) ==
    [k \in DOMAIN keys |->
        IF \E t \in DOMAIN tasks : tasks[t].key = keys[k]
        THEN BatchResult(keys[k],
                tasks[CHOOSE t \in DOMAIN tasks : tasks[t].key = keys[k]].success)
        ELSE BatchResult(keys[k], FALSE)]

\* permutationSpecs.find((candidate) => candidate.variantId === result.key)
findPermutation(permutations, key) ==
    permutations[CHOOSE k \in DOMAIN permutations : permutations[k].variantId = key]

\* one generation of the batch settles
BranchSettles(i, k, success) ==
    LET request == requests[i]
    IN  /\ request.stage = "batch"
        /\ k \in DOMAIN request.permutations
        /\ \A s \in DOMAIN Settled(request) : Settled(request)[s].index # k
        /\ requests' = [requests EXCEPT ![i] =
              [settled |-> Append(Settled(request),
                              Settlement(k, request.permutations[k].variantId, success))]
              @@ request]
        /\ UNCHANGED <<runs, db, artSeq, now, published, lastCall, served, client,
                       runListeners, delivered, streams, disk, procs>>

\* from the return of callLlmBatch to the response: the results with no
\* permutation are skipped, the others handled in the order of the array
BatchSettles(i, viaPython, failAt) ==
    LET request == requests[i]
        keys == BatchItemKeys(request.permutations)
        batch == IF viaPython
                 THEN callLlmBatchViaPythonBackend(keys, Settled(request))
                 ELSE callLlmBatchDirect(keys, Settled(request))
        found == SelectSeq(batch, LAMBDA result :
                    \E k \in DOMAIN request.permutations :
                        request.permutations[k].variantId = result.key)
        handled == [request EXCEPT !.permutations =
                       [k \in DOMAIN found |-> findPermutation(request.permutations,
                                                               found[k].key)]]
        results == [k \in DOMAIN found |-> found[k].success]
        compareOutput(acc) == CompareOutput("phase_d_compare", i, acc.generatedVariants)
    IN  /\ request.stage = "batch"
        /\ viaPython \/ Len(Settled(request)) = Len(request.permutations)
        /\ \E a3 \in {forEachPermutationResult(
                          [m |-> Call(runs, db, artSeq, now, failAt),
                           autoStartedPhases |-> <<>>, autoStartErrors |-> <<>>,
                           generatedVariants |-> <<>>],
                          handled, i, results, 1)} :
           \E m \in {IF a3.m.thrown # NoThrow \/ Len(a3.generatedVariants) = 0 THEN a3.m
                     ELSE persistPhaseOutput(a3.m,
                             [runId |-> request.runId, phaseId |-> "phase_d",
                              output |-> compareOutput(a3),
                              artifactPayloads |->
                                 <<ArtifactPayload("json", "generatedVariants",
                                                   compareOutput(a3))>>])} :
              /\ Finish(m, "callLlmBatch", request.runId, request.phaseId, request.action)
              /\ requests' = [requests EXCEPT ![i] =
                    [firstSettled |-> FirstSettled(request), batch |-> batch] @@
                    (IF m.thrown = NoThrow
                     THEN FanoutRecord(request, "done", 200, request.permutations,
                                       results, a3.autoStartedPhases, a3.autoStartErrors)
                     ELSE FanoutRecord(request, "done", 502, request.permutations,
                                       results, <<>>, <<>>))]
        /\ served' = NoServed /\ UNCHANGED client

GenerationSettles ==
    \E i \in DOMAIN requests, k \in 1..8, success \in BOOLEAN : BranchSettles(i, k, success)

BatchResolves ==
    \E i \in DOMAIN requests, viaPython \in BOOLEAN : BatchSettles(i, viaPython, 0)

\* the store does not fail before the batch is launched
ReceiveFanout ==
    /\ Len(requests) < MaxFanouts
    /\ \E r \in RunIds : HandleActionRequest(r, "phase_a", "START_PHASE", 0)

FanoutContextReturns ==
    \E i \in DOMAIN requests, b \in BranchFactors : ContextInitReturns(i, TRUE, b, 0)

NextSettle ==
    \/ ReceiveFanout
    \/ FanoutContextReturns
    \/ GenerationSettles
    \/ BatchResolves
    \/ BatchThrows

SpecSettle == Init /\ [][NextSettle]_vars

(***************************************************************************)
(* handleActionRequest on START_PHASE of phase_d with a mergerExplanation:  *)
(* phase_d is approved, phase_e started, the final merge generated through  *)
(* callLlmForPhase and phase_e completed.  The handler is split at the      *)
(* await of callLlmForPhase.                                                *)
(***************************************************************************)

\* a variant that the merge chooses from
VariantForMerge(variantId, output) == [variantId |-> variantId, output |-> output]

\* variantsForMerge: the entries of phase_d's generatedVariants, or the outputs
\* of phase_b and phase_c when there is none
variantsForMerge(snapshot) ==
    LET existing == snapshot.phases["phase_d"].output.generatedVariants
    IN  IF Len(existing) > 0
        THEN [k \in DOMAIN existing |->
                 VariantForMerge(existing[k].variantId, existing[k].output)]
        ELSE <<VariantForMerge("phase_b", snapshot.phases["phase_b"].output),
               VariantForMerge("phase_c", snapshot.phases["phase_c"].output)>>

\* Array.prototype.find on the variants that have an output: the output of the
\* first one among them whose variantId is in ids, or NoOutput
RECURSIVE outputOfFirst(_, _, _)
outputOfFirst(variants, ids, k) ==
    IF k > Len(variants) THEN NoOutput
    ELSE IF variants[k].output # NoOutput /\ variants[k].variantId \in ids
    THEN variants[k].output
    ELSE outputOfFirst(variants, ids, k + 1)

VariantIdsOf(variants) == {variants[k].variantId : k \in DOMAIN variants}

\* a base that looks at the branch phases only
mergedBaseOutputOfPhases(variants, preferredVariantIds, snapshot) ==
    IF snapshot.phases["phase_b"].output # NoOutput
    THEN snapshot.phases["phase_b"].output
    ELSE snapshot.phases["phase_c"].output

\* mergedBaseOutput: the output of the first preferred variant that has one,
\* else of the first variant that has one, else of phase_b, else of phase_c
mergedBaseOutput(variants, preferredVariantIds, snapshot) ==
    LET preferredPrimary == outputOfFirst(variants, preferredVariantIds, 1)
        firstAvailable == outputOfFirst(variants, VariantIdsOf(variants), 1)
    IN  IF preferredPrimary # NoOutput THEN preferredPrimary
        ELSE IF firstAvailable # NoOutput THEN firstAvailable
        ELSE IF snapshot.phases["phase_b"].output # NoOutput
        THEN snapshot.phases["phase_b"].output
        ELSE snapshot.phases["phase_c"].output

\* mergeReviewOutput keeps the generatedVariants it has read
MergeReviewOutput(i, existing) ==
    [PhaseOutput("phase_d_merge", i, NoAttempt) EXCEPT !.generatedVariants = existing]

\* finalPhaseOutput of a generation that returned: the content generated for
\* request i
FinalMergeOutput(i) == PhaseOutput("phase_e_final", i, NoAttempt)

\* finalPhaseOutput of the catch: the content of the base, or the fallback
\* schema when there is no base
FinalFallbackOutput(base) == PhaseOutput("phase_e_final", base.request, NoAttempt)

\* a merge-review request: RequestRecord with the locals that the handler
\* holds across its await
MergeReviewRecord(runId, stage, code, preferredVariantIds, variants, base, errors) ==
    [runId |-> runId, phaseId |-> "phase_d", action |-> "START_PHASE",
     stage |-> stage, code |-> code, forAttempt |-> NoAttempt, applied |-> TRUE,
     preferredVariantIds |-> preferredVariantIds, variantsForMerge |-> variants,
     mergedBaseOutput |-> base, autoStartedPhases |-> <<"phase_e">>,
     autoStartErrors |-> errors]

\* engine call k of the merge review before its await: START_PHASE on phase_d,
\* its output, APPROVE_PHASE on it, START_PHASE on phase_e, the read of the run
mergeReviewCall(m, runId, i, k) ==
    CASE k = 1 -> applyWorkflowAction(m, ActionRequest(runId, "phase_d", "START_PHASE"))
      [] k = 2 ->
         LET output == MergeReviewOutput(i,
                          m.runs[runId].phases["phase_d"].output.generatedVariants)
         IN  persistPhaseOutput(m,
                [runId |-> runId, phaseId |-> "phase_d", output |-> output,
                 artifactPayloads |->
                    <<ArtifactPayload("json", "output", output),
                      ArtifactPayload("diff", "diff", output),
                      ArtifactPayload("rubric", "rubricResults", output)>>])
      [] k = 3 -> applyWorkflowAction(m, ActionRequest(runId, "phase_d", "APPROVE_PHASE"))
      [] k = 4 -> applyWorkflowAction(m, ActionRequest(runId, "phase_e", "START_PHASE"))
      [] OTHER -> getWorkflowSnapshot(m, runId)

RECURSIVE mergeReviewCalls(_, _, _, _)
\* the engine calls of the merge review from call k on, until one throws
mergeReviewCalls(m0, runId, i, k) ==
    CHOOSE done \in
        {IF k > 5 \/ m.thrown # NoThrow THEN m
         ELSE mergeReviewCalls(mergeReviewCall(m, runId, i, k), runId, i, k + 1) :
            m \in {m0}} : TRUE

\* handleActionRequest on the merge review up to the await of callLlmForPhase,
\* or to its response when a call throws: 500 for the first read, 404 after it
HandleMergeReviewRequest(runId, preferredVariantIds, failAt) ==
    LET i == Len(requests) + 1
    IN  \E m1 \in {getWorkflowSnapshot(Call(runs, db, artSeq, now, failAt), runId)} :
        \E m2 \in {IF m1.thrown # NoThrow THEN m1
                   ELSE mergeReviewCalls(m1, runId, i, 1)} :
        \E variants \in {IF m2.thrown # NoThrow THEN <<>>
                         ELSE variantsForMerge(m2.runs[runId])} :
            /\ Finish(m2, "handleActionRequest", runId, "phase_d", "START_PHASE")
            /\ requests' = Append(requests,
                  IF m2.thrown = NoThrow
                  THEN MergeReviewRecord(runId, "merge", 0, preferredVariantIds, variants,
                          mergedBaseOutput(variants, preferredVariantIds, m2.runs[runId]),
                          <<>>)
                  ELSE MergeReviewRecord(runId, "done",
                          IF m1.thrown # NoThrow THEN 500 ELSE 404,
                          preferredVariantIds, <<>>, NoOutput, <<>>))
            /\ served' = NoServed /\ UNCHANGED client

\* from the return of callLlmForPhase on the final merge, or from its failure
\* (returned = FALSE), to the response
FinalMergeSettles(i, returned, hasUiCode, failAt) ==
    LET request == requests[i]
        finalPhaseOutput == IF returned THEN FinalMergeOutput(i)
                            ELSE FinalFallbackOutput(request.mergedBaseOutput)
        errors == IF returned THEN <<>> ELSE <<"phase_e_merge">>
    IN  /\ request.stage = "merge"
        /\ \E m1 \in {persistPhaseOutput(Call(runs, db, artSeq, now, failAt),
                        [runId |-> request.runId, phaseId |-> "phase_e",
                         output |-> finalPhaseOutput,
                         artifactPayloads |->
                            GeneratedPayloads(finalPhaseOutput, hasUiCode)])} :
           \E m2 \in {IF m1.thrown # NoThrow THEN m1
                      ELSE markPhaseCompleted(m1,
                              [runId |-> request.runId, phaseId |-> "phase_e"])} :
              /\ Finish(m2, IF returned THEN "callLlmForPhase" ELSE "callLlmForPhaseFailed",
                        request.runId, "phase_d", "START_PHASE")
              /\ requests' = [requests EXCEPT ![i] =
                    MergeReviewRecord(request.runId, "done",
                        IF m2.thrown = NoThrow THEN 200 ELSE 404,
                        request.preferredVariantIds, request.variantsForMerge,
                        request.mergedBaseOutput, errors)]
        /\ served' = NoServed /\ UNCHANGED client

\* what inferPreferredVariantIds or payload.selectedVariantIds may name
PreferredVariantIds == {{}, {"phase_c"}, {"phase_variant_1"}}

MergeReviews == {i \in DOMAIN requests : requests[i].phaseId = "phase_d"}

\* the gate, requested once, with a store that does not fail
ReceiveGate ==
    /\ \A i \in DOMAIN requests : requests[i].phaseId # "phase_a"
    /\ \E r \in RunIds : HandleActionRequest(r, "phase_a", "START_PHASE", 0)

GateContextReturns ==
    \E i \in DOMAIN requests, b \in BranchFactors : ContextInitReturns(i, TRUE, b, 0)

GateBatchReturns ==
    \E i \in DOMAIN requests :
        /\ requests[i].stage = "batch"
        /\ \E results \in [DOMAIN requests[i].permutations -> BOOLEAN] :
              CallLlmBatchReturns(i, results, 0)

ReceiveMergeReview ==
    /\ Cardinality(MergeReviews) < MaxReviews
    /\ \E r \in RunIds, preferred \in PreferredVariantIds :
          HandleMergeReviewRequest(r, preferred, 0)

FinalMergeReturns ==
    \E i \in DOMAIN requests : FinalMergeSettles(i, TRUE, TRUE, 0)

FinalMergeThrows ==
    \E i \in DOMAIN requests : FinalMergeSettles(i, FALSE, FALSE, 0)

NextReview ==
    \/ ReceiveGate
    \/ GateContextReturns
    \/ GateBatchReturns
    \/ ReceiveMergeReview
    \/ FinalMergeReturns
    \/ FinalMergeThrows

SpecReview == Init /\ [][NextReview]_vars

----------------------------------------------------------------------------
(* handleActionRequest on a request that its validation turns down: the      *)
(* checks made on the body before and after the first read of the run.       *)

\* what the validation reads of a body: whether actorId is a non-empty string,
\* the action it declares (Undefined: none), whether payload.intent,
\* payload.mergerExplanation, and payload.componentSelector with
\* payload.refinementPrompt are non-empty strings, and whether the selector
\* occurs in the HTML of the output of phase_e
RequestBody(actorId, action, intent, mergerExplanation, refinement, selectorOccurs) ==
    [actorId |-> actorId, action |-> action,
     payload |-> [intent |-> intent, mergerExplanation |-> mergerExplanation,
                  refinement |-> refinement, selectorOccurs |-> selectorOccurs]]

\* bodies with every payload field or none of them
RequestBodies ==
    {RequestBody(a, d, f, f, f, o) :
        a \in BOOLEAN, d \in {"START_PHASE", "RETRY_PHASE", Undefined},
        f \in BOOLEAN, o \in BOOLEAN}

parseContextInitPayload(payload) == payload.intent

parseMergeReviewPayload(payload) == payload.mergerExplanation

parseComponentRefinementPayload(payload) == payload.refinement

\* the checks before the run is read
requestRejection(action, body) ==
    IF ~body.actorId THEN "ActorIdRequired"
    ELSE IF body.action # Undefined /\ body.action # action THEN "ActionMismatch"
    ELSE NoThrow

\* the checks after the run is read; an absent output has no HTML
payloadRejection(action, phaseId, phaseType, payload, phaseEOutput) ==
    IF /\ isContextInitPhase(phaseId, phaseType) /\ action = "START_PHASE"
       /\ ~parseContextInitPayload(payload)
    THEN "MissingPayloadField"
    ELSE IF /\ phaseId = "phase_d" /\ phaseType = "HUMAN" /\ action = "START_PHASE"
            /\ ~parseMergeReviewPayload(payload)
    THEN "MissingPayloadField"
    ELSE IF /\ phaseId = "phase_e" /\ action = "RETRY_PHASE"
            /\ ~parseComponentRefinementPayload(payload)
    THEN "MissingPayloadField"
    ELSE IF /\ phaseId = "phase_e" /\ action = "RETRY_PHASE"
            /\ (phaseEOutput = NoOutput \/ ~payload.selectorOccurs)
    THEN "SelectorNotFound"
    ELSE NoThrow

\* handleActionRequest from its entry to a 400 answer, or to the 500 of a first
\* read that throws; lastCall.thrown tells which check turned the request down
RejectActionRequest(runId, phaseId, action, body, failAt) ==
    LET early == requestRejection(action, body)
        answer(code) == RequestRecord(runId, phaseId, action, "done", code, NoAttempt, FALSE)
    IN  /\ IF early # NoThrow
           THEN /\ failAt = 0
                /\ requests' = Append(requests, answer(400))
                /\ now' = now + 1
                /\ lastCall' = [NoCall EXCEPT !.op = "handleActionRequest",
                                              !.runId = runId, !.phaseId = phaseId,
                                              !.action = action, !.thrown = early]
                /\ published' = <<>>
                /\ UNCHANGED <<runs, db, artSeq, runListeners, delivered, streams, disk, procs>>
           ELSE \E m \in {getWorkflowSnapshot(Call(runs, db, artSeq, now, failAt), runId)} :
                \E late \in {IF m.thrown # NoThrow THEN m.thrown
                              ELSE payloadRejection(action, phaseId, PhaseType(phaseId),
                                     body.payload,
                                     m.runs[runId].phases["phase_e"].output)} :
                    /\ late # NoThrow
                    /\ Finish([m EXCEPT !.thrown = late], "handleActionRequest",
                              runId, phaseId, action)
                    /\ requests' = Append(requests,
                          answer(IF m.thrown # NoThrow THEN 500 ELSE 400))
        /\ served' = NoServed /\ UNCHANGED client

\* the phases whose requests have a payload check, and the two actions the
\* checks look at
ValidatedPhaseIds == {"phase_a", "phase_d", "phase_e"}

ValidatedActions == {"START_PHASE", "RETRY_PHASE"}

ReceiveRejectedRequest ==
    /\ now < MaxClock
    /\ \E r \in RunIds, p \in ValidatedPhaseIds, a \in ValidatedActions, f \in 0..1 :
          \E body \in RequestBodies : RejectActionRequest(r, p, a, body, f)

\* what has happened to the run before the request: actions on its phases and
\* outputs persisted on phase_e
ActionBeforeRequest ==
    /\ now < MaxClock
    /\ \E r \in RunIds, p \in ValidatedPhaseIds, a \in MUTATING_ACTIONS, f \in 0..1 :
          ApplyWorkflowAction(r, p, a, f)

OutputBeforeRequest ==
    /\ now < MaxClock
    /\ \E r \in RunIds, o \in Outputs, f \in 0..1 :
          \E payloads \in ArtifactPayloadInputs(o) :
              PersistPhaseOutput(r, "phase_e", o, payloads, f)

NextValidate ==
    \/ ActionBeforeRequest
    \/ OutputBeforeRequest
    \/ ResetWorkflowEngineCache
    \/ ReceiveRejectedRequest

SpecValidate == Init /\ [][NextValidate]_vars

----------------------------------------------------------------------------
(* Listeners subscribe to and unsubscribe from the events of two runs,       *)
(* between the engine calls that publish the events of the first.            *)

Subscribe(runId, listener) ==
    /\ runListeners' = subscribeToRunEvents(runListeners, runId, listener)
    /\ UNCHANGED <<runs, db, now, artSeq, published, lastCall, client, requests,
                   served, delivered, streams, disk, procs>>

Unsubscribe(runId, listener) ==
    /\ runListeners' = unsubscribe(runListeners, runId, listener)
    /\ UNCHANGED <<runs, db, now, artSeq, published, lastCall, client, requests,
                   served, delivered, streams, disk, procs>>

SubscribeListener == \E r \in StoreRunIds, l \in Listeners : Subscribe(r, l)

UnsubscribeListener == \E r \in StoreRunIds, l \in Listeners : Unsubscribe(r, l)

\* the publishing calls: actions on phase_a of the first run
PublishingCall ==
    /\ now < MaxClock
    /\ \E r \in RunIds, a \in {"START_PHASE", "APPROVE_PHASE"}, f \in 0..1 :
          ApplyWorkflowAction(r, "phase_a", a, f)

NextEvents ==
    \/ SubscribeListener
    \/ UnsubscribeListener
    \/ PublishingCall

SpecEvents == Init /\ [][NextEvents]_vars

----------------------------------------------------------------------------
(* workflow-http.ts: the induction of phase_e.  A RETRY_PHASE with a         *)
(* refinement payload launches the induction workers and awaits them; a      *)
(* START_PHASE with a selectedVariantId merges one of their results.         *)

InductionVariantId(index) ==
    <<"phase_e_induction_1", "phase_e_induction_2", "phase_e_induction_3",
      "phase_e_induction_4", "phase_e_induction_5", "phase_e_induction_6",
      "phase_e_induction_7", "phase_e_induction_8">>[index + 1]

buildInductionSpecs(branchFactor) ==
    LET specs == buildPermutationSpecs(branchFactor)
    IN  [i \in DOMAIN specs |->
           [variantId |-> InductionVariantId(specs[i].index),
            index |-> specs[i].index, total |-> specs[i].total]]

\* phase_a carries no contextArtifact.branchFactor here
inductionBranchFactor == 2

\* an entry of details.generatedRefinements
Refinement(variantId, status, output, hasUiCode) ==
    [variantId |-> variantId, status |-> status, output |-> output,
     hasUiCode |-> hasUiCode]

NoRefinement == Refinement(Undefined, Undefined, NoOutput, FALSE)

InductionOutput(variantId, request, forAttempt, refinements) ==
    [PhaseOutput(variantId, request, forAttempt) EXCEPT
        !.generatedRefinements = refinements]

\* the entries of the pending output: workers RUNNING, no output yet
pendingRefinements(specs) ==
    [k \in DOMAIN specs |-> Refinement(specs[k].variantId, "RUNNING", NoOutput, FALSE)]

\* the entries of the final output: the succeeded workers, then the failed
\* ones, each with the output made for it
generatedRefinements(specs, results, i, forAttempt, hasUiCode) ==
    LET entry(k) ==
            IF results[k]
            THEN Refinement(specs[k].variantId, "APPROVED",
                            PhaseOutput(specs[k].variantId, i, forAttempt), hasUiCode)
            ELSE Refinement(specs[k].variantId, "ERROR_STATUS",
                            PhaseOutput(specs[k].variantId, i, forAttempt), TRUE)
        all == [k \in DOMAIN specs |-> entry(k)]
    IN  SelectSeq(all, LAMBDA e : e.status = "APPROVED")
        \o SelectSeq(all, LAMBDA e : e.status = "ERROR_STATUS")

\* refinements.find(entry => entry.variantId === selectedVariantId)
findRefinement(refinements, selectedVariantId) ==
    LET found == {k \in DOMAIN refinements :
                     refinements[k].variantId = selectedVariantId}
    IN  IF found = {} THEN NoRefinement
        ELSE refinements[CHOOSE k \in found : \A j \in found : k <= j]

InductionRecord(runId, action, stage, code, forAttempt, selectedVariantId) ==
    [runId |-> runId, phaseId |-> "phase_e", action |-> action, stage |-> stage,
     code |-> code, forAttempt |-> forAttempt, applied |-> TRUE,
     selectedVariantId |-> selectedVariantId]

\* the final output of phase_e that the refinement works on
PhaseEGenerated ==
    \E r \in RunIds :
        /\ r \notin DOMAIN runs
        /\ PersistPhaseOutput(r, "phase_e", PhaseOutput("phase_e", 0, 1), <<>>, 0)

\* handleActionRequest for RETRY_PHASE on phase_e with a refinement payload, up
\* to its await of callLlmBatch: 400 when the final HTML has no such selector,
\* as when there is no output
HandleRefinementRequest(runId) ==
    LET request == ActionRequest(runId, "phase_e", "RETRY_PHASE")
        i == Len(requests) + 1
        specs == buildInductionSpecs(inductionBranchFactor)
        persistPending(m) ==
            persistPhaseOutput(m,
                [runId |-> runId, phaseId |-> "phase_e",
                 output |-> InductionOutput("phase_e_induction_pending", i,
                                            m.runs[runId].phases["phase_e"].attempt,
                                            pendingRefinements(specs)),
                 artifactPayloads |-> <<>>])
    IN  \E m1 \in {getWorkflowSnapshot(Call(runs, db, artSeq, now, 0), runId)} :
        \E found \in {m1.runs[runId].phases["phase_e"].output # NoOutput} :
        \E m2 \in {IF found THEN applyWorkflowAction(m1, request) ELSE m1} :
        \E m3 \in {IF found THEN persistPending(getWorkflowSnapshot(m2, runId)) ELSE m2} :
            /\ Finish(m3, "handleActionRequest", runId, "phase_e", "RETRY_PHASE")
            /\ requests' = Append(requests,
                  IF found
                  THEN InductionRecord(runId, "RETRY_PHASE", "batch", 0,
                                       m3.runs[runId].phases["phase_e"].attempt, Undefined)
                  ELSE InductionRecord(runId, "RETRY_PHASE", "done", 400, NoAttempt,
                                       Undefined))
            /\ served' = NoServed /\ UNCHANGED client

\* handleActionRequest from the return of callLlmBatch, with the outcome of
\* each worker of request i (TRUE: SUCCESS), to its response
RefinementBatchReturns(i, results, hasUiCode, failAt) ==
    LET request == requests[i]
        specs == buildInductionSpecs(inductionBranchFactor)
        refinements == generatedRefinements(specs, results, i, request.forAttempt,
                                            hasUiCode)
        output == InductionOutput("phase_e_refined", i, request.forAttempt, refinements)
    IN  /\ request.stage = "batch"
        /\ IF \A k \in DOMAIN results : ~results[k]
           THEN /\ failAt = 0
                /\ requests' = [requests EXCEPT ![i].stage = "done", ![i].code = 502]
                /\ now' = now + 1
                /\ lastCall' = [NoCall EXCEPT !.op = "callLlmBatch",
                                              !.runId = request.runId,
                                              !.phaseId = request.phaseId,
                                              !.action = request.action,
                                              !.thrown = "LlmFailure"]
                /\ published' = <<>>
                /\ UNCHANGED <<runs, db, artSeq, runListeners, delivered, streams,
                               disk, procs>>
           ELSE \E m1 \in {persistPhaseOutput(Call(runs, db, artSeq, now, failAt),
                              [runId |-> request.runId, phaseId |-> "phase_e",
                               output |-> output,
                               artifactPayloads |-> GeneratedPayloads(output, hasUiCode)])} :
                \E m2 \in {IF m1.thrown = NoThrow
                           THEN markPhaseCompleted(m1, [runId |-> request.runId,
                                                        phaseId |-> "phase_e"])
                           ELSE m1} :
                    /\ Finish(m2, "callLlmBatch", request.runId, "phase_e", request.action)
                    /\ requests' = [requests EXCEPT
                          ![i].stage = "done",
                          ![i].code = IF m2.thrown = NoThrow THEN 200 ELSE 502]
        /\ served' = NoServed /\ UNCHANGED client

\* handleActionRequest for START_PHASE on phase_e with a selectedVariantId
HandleMergeRequest(runId, selectedVariantId, failAt) ==
    LET request == ActionRequest(runId, "phase_e", "START_PHASE")
        merged(selected, refinements) ==
            InductionOutput("phase_e_induction_merged", selected.output.request,
                            selected.output.forAttempt, refinements)
    IN  \E m1 \in {getWorkflowSnapshot(
                       getWorkflowSnapshot(Call(runs, db, artSeq, now, failAt), runId),
                       runId)} :
        \E refinements \in {IF m1.thrown = NoThrow
                             THEN m1.runs[runId].phases["phase_e"].output.generatedRefinements
                             ELSE <<>>} :
        \E selected \in {findRefinement(refinements, selectedVariantId)} :
        \E accepts \in {m1.thrown = NoThrow /\ selected.output # NoOutput} :
        \E m2 \in {IF accepts THEN applyWorkflowAction(m1, request) ELSE m1} :
        \E m3 \in {IF accepts /\ m2.thrown = NoThrow
                   THEN persistPhaseOutput(m2,
                          [runId |-> runId, phaseId |-> "phase_e",
                           output |-> merged(selected, refinements),
                           artifactPayloads |->
                              GeneratedPayloads(merged(selected, refinements),
                                                selected.hasUiCode)])
                   ELSE m2} :
        \E m4 \in {IF accepts /\ m3.thrown = NoThrow
                   THEN markPhaseCompleted(m3, [runId |-> runId, phaseId |-> "phase_e"])
                   ELSE m3} :
            /\ Finish(m4, "handleActionRequest", runId, "phase_e", "START_PHASE")
            /\ requests' = Append(requests,
                  InductionRecord(runId, "START_PHASE", "done",
                                  IF m1.thrown # NoThrow THEN 500
                                  ELSE IF ~accepts THEN 400
                                  ELSE IF m4.thrown = NoThrow THEN 200 ELSE 404,
                                  NoAttempt, selectedVariantId))
            /\ served' = NoServed /\ UNCHANGED client

ReceiveRefinement ==
    /\ Len(requests) < MaxInductions
    /\ \E r \in RunIds : HandleRefinementRequest(r)

ReceiveMerge ==
    /\ Len(requests) < MaxInductions
    /\ \E r \in RunIds, v \in {InductionVariantId(0), InductionVariantId(2)},
          f \in 0..1 :
          HandleMergeRequest(r, v, f)

RefinementReturns ==
    \E i \in DOMAIN requests, hasUiCode \in BOOLEAN, f \in 0..1 :
        \E results \in [1..inductionBranchFactor -> BOOLEAN] :
            RefinementBatchReturns(i, results, hasUiCode, f)

\* callLlmBatch throws: the handler answers 502
RefinementBatchThrows(i) ==
    /\ requests[i].stage = "batch"
    /\ requests' = [requests EXCEPT ![i].stage = "done", ![i].code = 502]
    /\ now' = now + 1
    /\ lastCall' = [NoCall EXCEPT !.op = "callLlmBatch", !.runId = requests[i].runId,
                                  !.phaseId = requests[i].phaseId,
                                  !.action = requests[i].action, !.thrown = "LlmFailure"]
    /\ published' = <<>>
    /\ served' = NoServed
    /\ UNCHANGED <<runs, db, artSeq, client, runListeners, delivered, streams, disk, procs>>

RefinementThrows == \E i \in DOMAIN requests : RefinementBatchThrows(i)

NextInduction ==
    \/ PhaseEGenerated
    \/ ReceiveRefinement
    \/ RefinementReturns
    \/ RefinementThrows
    \/ ReceiveMerge

SpecInduction == Init /\ [][NextInduction]_vars

----------------------------------------------------------------------------
(* Processes write the store concurrently, and crash and restart.            *)

SetProcess(p, process) ==
    procs' = [procs EXCEPT ![p] = process]

OnDisk ==
    UNCHANGED <<runs, db, now, artSeq, published, lastCall, client, requests, served,
                runListeners, delivered, streams>>

\* a call of saveRunSnapshot, saveArtifact or deleteRunData enters withDbLock
StartWrite(p) ==
    /\ procs[p].pc = "idle"
    /\ \E op \in WriterOps :
          SetProcess(p, [pc |-> "acquiring", op |-> op, local |-> EmptyDocument,
                         waited |-> 0, outcome |-> "none"])
    /\ UNCHANGED disk
    /\ OnDisk

\* one turn of the while loop of withDbLock
TryLock(p) ==
    /\ procs[p].pc = "acquiring"
    /\ IF lockIsFree(disk)
       THEN /\ disk' = [disk EXCEPT !.lock = p]
            /\ SetProcess(p, [procs[p] EXCEPT !.pc = "reading"])
       ELSE /\ UNCHANGED disk
            /\ IF timedOut(procs[p].waited)
               THEN SetProcess(p, IdleProcess("LockTimeout"))
               ELSE SetProcess(p, [procs[p] EXCEPT !.waited = @ + 1])
    /\ OnDisk

\* ensureDbFile in readDb: a document that cannot be read is created, and
\* writeFileSync opens it
EnsureDbFile(p) ==
    /\ procs[p].pc = "reading"
    /\ IF disk.file.state = "missing"
       THEN /\ disk' = [disk EXCEPT !.file = PartialFile]
            /\ SetProcess(p, [procs[p] EXCEPT !.pc = "creating"])
       ELSE /\ UNCHANGED disk
            /\ SetProcess(p, [procs[p] EXCEPT !.pc = "parsing"])
    /\ OnDisk

\* writeFileSync of ensureDbFile completes
CreateDocument(p) ==
    /\ procs[p].pc = "creating"
    /\ disk' = [disk EXCEPT !.file = CompleteFile(EmptyDocument)]
    /\ SetProcess(p, [procs[p] EXCEPT !.pc = "parsing"])
    /\ OnDisk

\* readFileSync and JSON.parse in readDb, then fn(db); a partial document does
\* not parse, and the throw leaves the section through its finally
ReadDocument(p) ==
    /\ procs[p].pc = "parsing"
    /\ IF disk.file.state = "complete"
       THEN /\ UNCHANGED disk
            /\ SetProcess(p, [procs[p] EXCEPT
                                 !.pc = "writing",
                                 !.local = fn(procs[p].op, p, disk.file.doc)])
       ELSE /\ disk' = leaveSection(disk, TRUE)
            /\ SetProcess(p, IdleProcess("threw"))
    /\ OnDisk

\* writeDb: writeFileSync(tempPath)
WriteTemp(p) ==
    /\ procs[p].pc = "writing"
    /\ disk' = [disk EXCEPT !.temp[p] = CompleteFile(procs[p].local)]
    /\ SetProcess(p, [procs[p] EXCEPT !.pc = "renaming"])
    /\ OnDisk

\* writeDb: writeFileSync(tempPath) throws, as it does when the file cannot be
\* made; the throw leaves the section through its finally
WriteTempThrows(p) ==
    /\ procs[p].pc = "writing"
    /\ disk' = leaveSection(disk, TRUE)
    /\ SetProcess(p, IdleProcess("threw"))
    /\ OnDisk

\* writeDb: renameSync(tempPath, DB_PATH)
Rename(p) ==
    /\ procs[p].pc = "renaming"
    /\ disk' = [disk EXCEPT !.file = disk.temp[p],
                            !.temp[p] = MissingFile,
                            !.committed = fn(procs[p].op, p, @)]
    /\ SetProcess(p, [procs[p] EXCEPT !.pc = "releasing"])
    /\ OnDisk

\* the finally of withDbLock after writeDb returned
Release(p) ==
    /\ procs[p].pc = "releasing"
    /\ disk' = leaveSection(disk, FALSE)
    /\ SetProcess(p, IdleProcess("committed"))
    /\ OnDisk

\* the process dies where it is: what it left in the directory stays
Crash(p) ==
    /\ procs[p].pc \notin {"idle", "crashed"}
    /\ disk.crashes < MaxCrashes
    /\ disk' = [disk EXCEPT !.crashes = @ + 1]
    /\ SetProcess(p, [procs[p] EXCEPT !.pc = "crashed"])
    /\ OnDisk

Restart(p) ==
    /\ procs[p].pc = "crashed"
    /\ UNCHANGED disk
    /\ SetProcess(p, IdleProcess("restarted"))
    /\ OnDisk

Step(p) ==
    \/ TryLock(p)
    \/ EnsureDbFile(p)
    \/ CreateDocument(p)
    \/ ReadDocument(p)
    \/ WriteTemp(p)
    \/ WriteTempThrows(p)
    \/ Rename(p)
    \/ Release(p)

NextLock ==
    \E p \in Procs :
        \/ StartWrite(p)
        \/ Step(p)
        \/ Crash(p)
        \/ Restart(p)

SpecLock == Init /\ [][NextLock]_vars

\* a process that runs takes its next step, a process that is idle writes
\* again, and a process that crashed is restarted
SpecLockFair ==
    /\ SpecLock
    /\ \A p \in Procs : /\ WF_vars(Step(p))
                         /\ WF_vars(StartWrite(p))
                         /\ WF_vars(Restart(p))

----------------------------------------------------------------------------
(* The stream route, app/api/workflows/[runId]/stream/route.ts: a connection *)
(* is the listener its GET registers.  st is the pair of the connections and *)
(* the listener registry that the route's callbacks read and write.          *)

Connections == {"l1", "l3"}

createHeartbeatEvent(runId, sequence, clock) ==
    [eventType |-> "heartbeat", runId |-> runId, emittedAt |-> clock,
     sequence |-> sequence]

\* closed is the route's flag; broken is a controller whose enqueue throws;
\* heartbeatInterval tells that the timer is set and not cleared, subscribed
\* that the route holds the function that removes its listener
Connection(runId, broken) ==
    [runId |-> runId, heartbeatSequence |-> 0, closed |-> FALSE, broken |-> broken,
     emitted |-> <<>>, heartbeatInterval |-> FALSE, subscribed |-> FALSE]

cleanup(st, c) ==
    IF st.streams[c].closed THEN st
    ELSE [streams |-> [st.streams EXCEPT ![c].closed = TRUE,
                                         ![c].heartbeatInterval = FALSE],
          listeners |-> IF st.streams[c].subscribed
                        THEN unsubscribe(st.listeners, st.streams[c].runId, c)
                        ELSE st.listeners]

enqueueEvent(st, c, event) ==
    IF st.streams[c].closed THEN st
    ELSE IF st.streams[c].broken THEN cleanup(st, c)
    ELSE [st EXCEPT !.streams[c].emitted = Append(@, event)]

\* a timer callback that sends the sequence number it found
heartbeatRepeating(st, c, clock) ==
    enqueueEvent(st, c, createHeartbeatEvent(st.streams[c].runId,
                                             st.streams[c].heartbeatSequence, clock))

\* the first heartbeat of start(controller) and the callback of its setInterval
heartbeat(st, c, clock) ==
    LET counted == [st EXCEPT !.streams[c].heartbeatSequence = @ + 1]
    IN  enqueueEvent(counted, c,
                     createHeartbeatEvent(counted.streams[c].runId,
                                          counted.streams[c].heartbeatSequence, clock))

\* start(controller) of the ReadableStream of a GET for runId
\* the first heartbeat, then setInterval, then subscribeToRunEvents, whatever
\* the first heartbeat did
start(st, c, runId, clock, broken) ==
    LET opened == heartbeat([st EXCEPT !.streams = Put(@, c, Connection(runId, broken))],
                            c, clock)
    IN  [opened EXCEPT !.streams[c].heartbeatInterval = TRUE,
                       !.streams[c].subscribed = TRUE,
                       !.listeners = subscribeToRunEvents(@, runId, c)]

RECURSIVE forward(_, _, _)
\* the listeners of the connections invoked by a call, from invocation i on
forward(st, invocations, i) ==
    IF i > Len(invocations) THEN st
    ELSE forward(IF invocations[i].listener \in DOMAIN st.streams
                 THEN enqueueEvent(st, invocations[i].listener, invocations[i].event)
                 ELSE st,
                 invocations, i + 1)

StreamState == [streams |-> streams, listeners |-> runListeners]

SetStreamState(st) ==
    /\ streams' = st.streams
    /\ UNCHANGED <<disk, procs>>
    /\ runListeners' = st.listeners
    /\ UNCHANGED <<runs, db, now, artSeq, published, lastCall, client, requests,
                   served, delivered>>

OpenStream ==
    \E c \in Connections \ DOMAIN streams, r \in StoreRunIds, broken \in BOOLEAN :
        SetStreamState(start(StreamState, c, r, now, broken))

HeartbeatTick ==
    \E c \in DOMAIN streams :
        /\ streams[c].heartbeatInterval
        /\ streams[c].heartbeatSequence < MaxHeartbeats
        /\ SetStreamState(heartbeat(StreamState, c, now))

CancelStream ==
    \E c \in DOMAIN streams :
        /\ ~streams[c].closed
        /\ SetStreamState(cleanup(StreamState, c))

ControllerBreaks ==
    \E c \in DOMAIN streams :
        /\ ~streams[c].closed /\ ~streams[c].broken
        /\ SetStreamState([StreamState EXCEPT !.streams[c].broken = TRUE])

\* a start of phase_a of the first run, its event forwarded by the connections
PublishToStreams ==
    /\ now < MaxClock
    /\ \E r \in RunIds :
          LET m == applyWorkflowAction(Call(runs, db, artSeq, now, 0),
                                       ActionRequest(r, "phase_a", "START_PHASE"))
              st == forward(StreamState, m.delivered, 1)
          IN  /\ Reaches(m)
              /\ runs' = m.runs
              /\ db' = m.db
              /\ artSeq' = m.artSeq
              /\ published' = m.published
              /\ delivered' = m.delivered
              /\ streams' = st.streams
              /\ UNCHANGED <<disk, procs>>
              /\ runListeners' = st.listeners
              /\ now' = now + 1
              /\ lastCall' = [NoCall EXCEPT !.op = "applyWorkflowAction", !.runId = r,
                                            !.phaseId = "phase_a",
                                            !.action = "START_PHASE",
                                            !.thrown = m.thrown,
                                            !.previousStatus = m.previousStatus,
                                            !.unblocked = m.unblocked]
              /\ served' = NoServed
              /\ UNCHANGED <<client, requests>>

NextStream ==
    \/ OpenStream
    \/ HeartbeatTick
    \/ CancelStream
    \/ ControllerBreaks
    \/ PublishToStreams

SpecStream == Init /\ [][NextStream]_vars

----------------------------------------------------------------------------
(* The registry of listeners on its own: every registration and every        *)
(* unsubscribe function called is recorded in lastCall, between the starts   *)
(* of phase_a that publish an event of the first run.                        *)

RecordedSubscribe(runId, listener) ==
    /\ runListeners' = subscribeToRunEvents(runListeners, runId, listener)
    /\ lastCall' = [NoCall EXCEPT !.op = "subscribeToRunEvents", !.runId = runId,
                                  !.listener = listener]
    /\ published' = <<>>
    /\ delivered' = <<>>
    /\ UNCHANGED <<streams, disk, procs>>
    /\ UNCHANGED <<runs, db, now, artSeq, client, requests, served>>

RecordedUnsubscribe(runId, listener) ==
    /\ runListeners' = unsubscribe(runListeners, runId, listener)
    /\ lastCall' = [NoCall EXCEPT !.op = "unsubscribe", !.runId = runId,
                                  !.listener = listener]
    /\ published' = <<>>
    /\ delivered' = <<>>
    /\ UNCHANGED <<streams, disk, procs>>
    /\ UNCHANGED <<runs, db, now, artSeq, client, requests, served>>

SubscribeRecorded == \E r \in StoreRunIds, l \in Listeners : RecordedSubscribe(r, l)

UnsubscribeRecorded == \E r \in StoreRunIds, l \in Listeners : RecordedUnsubscribe(r, l)

PublishToSubscribers ==
    /\ now < MaxClock
    /\ \E r \in RunIds : ApplyWorkflowAction(r, "phase_a", "START_PHASE", 0)

NextSubscriptions ==
    \/ SubscribeRecorded
    \/ UnsubscribeRecorded
    \/ PublishToSubscribers

SpecSubscriptions == Init /\ [][NextSubscriptions]_vars

----------------------------------------------------------------------------
(* workflow-db.ts called directly, on two runs *)

SaveRunSnapshot(runId, failAt) ==
    /\ Finish(saveRunSnapshot(Call(runs, db, artSeq, now, failAt), Seeded(runId, now)),
              "saveRunSnapshot", runId, Undefined, Undefined)
    /\ UNCHANGED <<client, requests, served>>

SaveArtifact(runId, phaseId, attempt, kind, failAt) ==
    /\ Finish(saveArtifact(Call(runs, db, artSeq, now, failAt),
                           [runId |-> runId, phaseId |-> phaseId, attempt |-> attempt,
                            kind |-> kind, data |-> [field |-> kind, of |-> NoOutput]]),
              "saveArtifact", runId, phaseId, Undefined)
    /\ UNCHANGED <<client, requests, served>>

DeleteRunData(runId, failAt) ==
    /\ Finish(deleteRunData(Call(runs, db, artSeq, now, failAt), runId),
              "deleteRunData", runId, Undefined, Undefined)
    /\ UNCHANGED <<client, requests, served>>

CallSaveRunSnapshot ==
    /\ now < MaxDbCalls
    /\ \E r \in StoreRunIds, f \in 0..1 : SaveRunSnapshot(r, f)

CallSaveArtifact ==
    /\ now < MaxDbCalls
    /\ \E r \in StoreRunIds, p \in {"phase_a"}, k \in 1..2, f \in 0..1 :
          SaveArtifact(r, p, k, "json", f)

CallDeleteRunData ==
    /\ now < MaxDbCalls
    /\ \E r \in StoreRunIds, f \in 0..1 : DeleteRunData(r, f)

NextStore ==
    \/ CallSaveRunSnapshot
    \/ CallSaveArtifact
    \/ CallDeleteRunData

SpecStore == Init /\ [][NextStore]_vars

----------------------------------------------------------------------------
(* Properties *)

\* the run object an engine call on runId works on: the cached one, else the
\* stored one, else a fresh seed
ViewOf(runsNow, dbNow, runId, clock) ==
    ensureRun(Call(runsNow, dbNow, 0, clock, 0), runId).runs[runId]

StatusesAgree(snapshot) ==
    \A i \in DOMAIN snapshot.nodes :
        snapshot.nodes[i].phaseId \in DOMAIN snapshot.phases
            => snapshot.nodes[i].status = snapshot.phases[snapshot.nodes[i].phaseId].status

DependsOn(snapshot, phaseId) ==
    UNION {snapshot.nodes[i].dependsOn :
             i \in {j \in DOMAIN snapshot.nodes : snapshot.nodes[j].phaseId = phaseId}}

DependenciesSatisfied(snapshot, phaseId) ==
    \A d \in DependsOn(snapshot, phaseId) :
        d \in DOMAIN snapshot.phases /\ snapshot.phases[d].status \in {"COMPLETED", "APPROVED"}

\* a step that is an engine call of the given operation
IsCall(op) == now' = now + 1 /\ lastCall'.op = op

\* C1: in every reachable state, cached or stored, each entry of nodes has the
\* status of phases[node.phaseId]
C1_NodesAgreeWithPhases ==
    /\ \A r \in DOMAIN runs : StatusesAgree(runs[r])
    /\ \A r \in DOMAIN db.runs : StatusesAgree(db.runs[r])

C1_Witness ==
    /\ lastCall.op = "markPhaseCompleted" /\ lastCall.thrown = NoThrow
    /\ lastCall.unblocked = {"phase_d"}
    /\ runs[lastCall.runId].nodes[4].status = "DRAFT"
    /\ runs[lastCall.runId].phases["phase_c"].status = "COMPLETED"

\* C2: a step that takes a phase from BLOCKED to DRAFT leaves every declared
\* dependency of that phase COMPLETED or APPROVED
C2_UnblockOnlyWhenSatisfied ==
    [][\A r \in RunIds : \A q \in PhaseIds :
          LET before == ViewOf(runs, db, r, now)
              after == ViewOf(runs', db', r, now')
          IN  (before.phases[q].status = "BLOCKED" /\ after.phases[q].status = "DRAFT")
                 => DependenciesSatisfied(after, q)]_vars

C2_Witness ==
    /\ lastCall.op = "applyWorkflowAction" /\ lastCall.thrown = NoThrow
    /\ lastCall.unblocked = {"phase_d"}
    /\ runs[lastCall.runId].phases["phase_d"].status = "DRAFT"
    /\ runs[lastCall.runId].phases["phase_b"].status = "APPROVED"
    /\ runs[lastCall.runId].phases["phase_c"].status = "APPROVED"

\* C3: no step takes a phase out of BLOCKED while one of its dependencies is
\* neither COMPLETED nor APPROVED
C3_NeverLeavesBlockedUnsatisfied ==
    [][\A r \in RunIds : \A q \in PhaseIds :
          LET before == ViewOf(runs, db, r, now)
              after == ViewOf(runs', db', r, now')
          IN  (before.phases[q].status = "BLOCKED" /\ after.phases[q].status # "BLOCKED")
                 => DependenciesSatisfied(after, q)]_vars

Other(phaseId) == IF phaseId = "phase_b" THEN "phase_c" ELSE "phase_b"

NamesOnly(events, runId, phaseId) ==
    /\ Len(events) = 1
    /\ events[1].eventType = "phase_updated"
    /\ events[1].runId = runId
    /\ events[1].phaseId = phaseId

\* C4: phase_d depends on phase_b and phase_c.  When APPROVE_PHASE on one of them
\* returns and phase_d was BLOCKED, a fresh snapshot shows phase_d BLOCKED if the
\* other one is not satisfied and DRAFT if the other one is APPROVED; the call's
\* only event names the approved phase, none names phase_d
C4_SilentUnblockOfPhaseD ==
    [][\A r \in RunIds : \A x \in {"phase_b", "phase_c"} :
          LET before == ViewOf(runs, db, r, now)
              fresh == ViewOf(runs', db', r, now')
          IN  (/\ IsCall("applyWorkflowAction")
               /\ lastCall'.action = "APPROVE_PHASE" /\ lastCall'.thrown = NoThrow
               /\ lastCall'.runId = r /\ lastCall'.phaseId = x
               /\ before.phases["phase_d"].status = "BLOCKED")
              => /\ fresh.phases[x].status = "APPROVED"
                 /\ ~isDependencySatisfied(fresh.phases[Other(x)].status)
                       => fresh.phases["phase_d"].status = "BLOCKED"
                 /\ fresh.phases[Other(x)].status = "APPROVED"
                       => fresh.phases["phase_d"].status = "DRAFT"
                 /\ NamesOnly(published', r, x)]_vars

C4_Witness ==
    /\ lastCall.op = "applyWorkflowAction" /\ lastCall.action = "APPROVE_PHASE"
    /\ lastCall.thrown = NoThrow /\ lastCall.phaseId = "phase_c"
    /\ lastCall.unblocked = {"phase_d"}
    /\ runs[lastCall.runId].phases["phase_b"].status = "APPROVED"
    /\ runs[lastCall.runId].phases["phase_d"].status = "DRAFT"
    /\ NamesOnly(published, lastCall.runId, "phase_c")

\* C5: every applyWorkflowAction call on a phase of the run publishes exactly one
\* phase_updated event, carrying the status before and the status after the call
C5_AlwaysOnePhaseUpdated ==
    [][\A r \in RunIds : \A p \in PhaseIds :
          (IsCall("applyWorkflowAction") /\ lastCall'.runId = r /\ lastCall'.phaseId = p)
          => /\ NamesOnly(published', r, p)
             /\ published'[1].previousStatus = ViewOf(runs, db, r, now).phases[p].status
             /\ published'[1].status = ViewOf(runs', db', r, now').phases[p].status]_vars

\* a step that is a reset of a run or of the registry
IsReset ==
    \/ IsCall("resetWorkflowRun")
    \/ now' = now /\ runs # EmptyMap /\ runs' = EmptyMap

\* C6: what applyWorkflowAction does to attempt, output and artifacts.
\* RETRY_PHASE on p that gets to the phase adds 1 to p.attempt, leaves p RUNNING and
\* clears p.error, p.output, p.artifacts; any other change of an attempt, and any
\* change of the output or artifacts of a phase that is not the target of the call,
\* happens in no step but a reset of the run or of the registry
C6_RetryFrame ==
    [][\A r \in RunIds :
          LET before == ViewOf(runs, db, r, now)
              after == ViewOf(runs', db', r, now')
              retried(p) == /\ IsCall("applyWorkflowAction") /\ lastCall'.runId = r
                            /\ lastCall'.action = "RETRY_PHASE" /\ lastCall'.phaseId = p
                            /\ lastCall'.previousStatus # Undefined
          IN  ~IsReset => \A p \in PhaseIds :
                    /\ before.phases[p].attempt >= 1
                    /\ retried(p) =>
                          /\ after.phases[p].attempt = before.phases[p].attempt + 1
                          /\ after.phases[p].status = "RUNNING"
                          /\ after.phases[p].error = Undefined
                          /\ after.phases[p].output = NoOutput
                          /\ after.phases[p].artifacts = <<>>
                    /\ ~retried(p) => after.phases[p].attempt = before.phases[p].attempt
                    /\ (IsCall("applyWorkflowAction") /\ lastCall'.phaseId # p) =>
                          /\ after.phases[p].output = before.phases[p].output
                          /\ after.phases[p].artifacts = before.phases[p].artifacts]_vars

C6_Witness ==
    /\ lastCall.op = "applyWorkflowAction" /\ lastCall.action = "RETRY_PHASE"
    /\ lastCall.thrown = NoThrow /\ lastCall.phaseId = "phase_b"
    /\ runs[lastCall.runId].phases["phase_b"].attempt = 2
    /\ runs[lastCall.runId].phases["phase_b"].artifacts = <<>>
    /\ \E i \in DOMAIN db.artifacts :
          db.artifacts[i].phaseId = "phase_b" /\ db.artifacts[i].attempt = 1

StoredFor(runId, phaseId, attempt) ==
    {j \in DOMAIN db.artifacts : /\ db.artifacts[j].runId = runId
                                 /\ db.artifacts[j].phaseId = phaseId
                                 /\ db.artifacts[j].attempt = attempt}

\* C7: the listing the artifacts route serves for a phase holds the artifacts
\* stored with the phase's current attempt, all of them and no other: after a
\* retry from attempt k to k+1 it holds none stored with attempt k
C7_ListingScopedToCurrentAttempt ==
    served.held
    => /\ served.attempt = runs[served.runId].phases[served.phaseId].attempt
       /\ \A i \in DOMAIN served.items :
             /\ served.items[i].runId = served.runId
             /\ served.items[i].phaseId = served.phaseId
             /\ served.items[i].attempt = served.attempt
       /\ {served.items[i].artifactId : i \in DOMAIN served.items}
             = {db.artifacts[j].artifactId :
                  j \in StoredFor(served.runId, served.phaseId, served.attempt)}

\* phase_b generated and stored under attempt 1, retried, generated and stored
\* under attempt 2, and its listing served
C7_Witness ==
    /\ served.held /\ served.phaseId = "phase_b" /\ served.attempt = 2
    /\ served.items # <<>>
    /\ Len(requests) = 2
    /\ requests[1].action = "START_PHASE" /\ requests[1].code = 200
    /\ requests[2].action = "RETRY_PHASE" /\ requests[2].code = 200
    /\ StoredFor(served.runId, "phase_b", 1) # {}
    /\ \A j \in StoredFor(served.runId, "phase_b", 1) : db.artifacts[j].data.of.request = 1
    /\ \A i \in DOMAIN served.items : served.items[i].data.of.request = 2

\* C8: whatever the interleaving of the requests, the output of a phase and the
\* artifacts listed for its current attempt were generated for that attempt
C8_NoStaleDataInCurrentAttempt ==
    \A r \in DOMAIN runs : \A p \in DOMAIN runs[r].phases :
        LET phase == runs[r].phases[p]
            listing == getPhaseStoredArtifacts(runs, db, r, p)
        IN  /\ phase.output # NoOutput => phase.output.forAttempt = phase.attempt
            /\ \A i \in DOMAIN listing : listing[i].data.of.forAttempt = phase.attempt

\* C9: a getWorkflowSnapshot that follows another one for the same run, with no
\* engine call in between, returns an equal document, also when the caller has
\* written into the first one; and such a write changes neither the registry nor
\* the store
C9_SnapshotIsIndependentCopy ==
    [][/\ (/\ IsCall("getWorkflowSnapshot") /\ lastCall'.thrown = NoThrow
           /\ client'.fetches >= 2)
          => client'.returned = client.returned
       /\ (client.held /\ client'.mutated /\ ~client.mutated)
          => /\ runs' = runs
             /\ db' = db
             /\ client'.returned = client.returned]_vars

C9_Witness ==
    /\ lastCall.op = "getWorkflowSnapshot" /\ lastCall.thrown = NoThrow
    /\ client.fetches >= 2 /\ client.mutatedBefore
    /\ client.returned = runs[client.runId]

GateReset(phase, status) ==
    /\ phase.status = status
    /\ phase.attempt = 1
    /\ phase.output = NoOutput
    /\ phase.error = Undefined
    /\ phase.artifacts = <<>>

NodeStatus(snapshot, phaseId) == snapshot.nodes[IndexOfNode(snapshot.nodes, phaseId)].status

\* C10: when resetWorkflowRun(r) has returned, phase_a is DRAFT and phase_b and
\* phase_c are BLOCKED, each with attempt 1 and no output, error or artifacts, in
\* the phases map and in the node list, of the registry and of the store
C10_ResetReseedsGate ==
    (lastCall.op = "resetWorkflowRun" /\ lastCall.thrown = NoThrow)
    => /\ lastCall.runId \in DOMAIN runs
       /\ lastCall.runId \in DOMAIN db.runs
       /\ \A s \in {runs[lastCall.runId], db.runs[lastCall.runId]} :
             /\ GateReset(s.phases["phase_a"], "DRAFT")
             /\ GateReset(s.phases["phase_b"], "BLOCKED")
             /\ GateReset(s.phases["phase_c"], "BLOCKED")
             /\ NodeStatus(s, "phase_a") = "DRAFT"
             /\ NodeStatus(s, "phase_b") = "BLOCKED"
             /\ NodeStatus(s, "phase_c") = "BLOCKED"

\* a reset of a run that had been started and had stored an artifact
C10_Witness ==
    /\ lastCall.op = "resetWorkflowRun" /\ lastCall.thrown = NoThrow
    /\ artSeq > 0
    /\ db.artifacts = <<>>
    /\ GateReset(runs[lastCall.runId].phases["phase_a"], "DRAFT")

\* C11: when the last request the server took is a reset of run r that returned,
\* and every request taken before it has finished, the run has its gate in DRAFT
\* and the gate's dependents BLOCKED, no phase carries an output or an artifact
\* reference, and the store holds no artifact of r
C11_ResetLeaksNothing ==
    \A k \in DOMAIN requests :
        (/\ k = Len(requests)
         /\ requests[k].action = "RESET" /\ requests[k].code = 200
         /\ \A i \in DOMAIN requests : requests[i].stage = "done")
        => LET r == requests[k].runId
           IN  /\ r \in DOMAIN runs
               /\ GateReset(runs[r].phases["phase_a"], "DRAFT")
               /\ GateReset(runs[r].phases["phase_b"], "BLOCKED")
               /\ GateReset(runs[r].phases["phase_c"], "BLOCKED")
               /\ \A p \in DOMAIN runs[r].phases :
                     runs[r].phases[p].output = NoOutput /\ runs[r].phases[p].artifacts = <<>>
               /\ \A j \in DOMAIN db.artifacts : db.artifacts[j].runId # r

ArtifactsNotOf(dbNow, runId) == SelectSeq(dbNow.artifacts, LAMBDA a : a.runId # runId)

\* C12: a deleteRunData(r) that returns leaves the store without a snapshot of r
\* and without an artifact whose runId is r, so that every listing for a phase
\* of r is empty, and leaves the snapshot and the artifacts of every other run
\* as they were
C12_DeleteRunDataFrame ==
    [][(IsCall("deleteRunData") /\ lastCall'.thrown = NoThrow)
       => LET r == lastCall'.runId
          IN  /\ r \notin DOMAIN db'.runs
              /\ \A j \in DOMAIN db'.artifacts : db'.artifacts[j].runId # r
              /\ \A p \in PhaseIdInputs, k \in {NoAttempt, 1, 2} :
                    listArtifactsForPhase(db', r, p, k) = <<>>
              /\ DOMAIN db'.runs = DOMAIN db.runs \ {r}
              /\ \A q \in DOMAIN db'.runs : db'.runs[q] = db.runs[q]
              /\ ArtifactsNotOf(db', r) = ArtifactsNotOf(db, r)]_vars

\* a delete of a run that had a snapshot and an artifact, beside another run
\* that has both
C12_Witness ==
    /\ lastCall.op = "deleteRunData" /\ lastCall.thrown = NoThrow
    /\ now = 5
    /\ Len(db.artifacts) = 1 /\ artSeq = 2
    /\ db.artifacts[1].runId # lastCall.runId
    /\ DOMAIN db.runs = StoreRunIds \ {lastCall.runId}

\* the requests that launched permutations
IsFanout(request) == "permutations" \in DOMAIN request

FailedBranches(request) ==
    {k \in DOMAIN request.permutations : ~request.results[k]}

\* the branches that generated the output of a phase
SucceededPhaseBranches(request) ==
    {k \in DOMAIN request.permutations :
        request.results[k] /\ request.permutations[k].phaseId # Undefined}

Members(s) == {s[j] : j \in DOMAIN s}

ApprovedAmong(snapshot, phaseIds) ==
    {p \in phaseIds : snapshot.phases[p].status = "APPROVED"}

\* C13: when callLlmBatch returns and the store does not fail, the fan-out is
\* accepted if a branch succeeded, autoStartErrors holds one reason per failed
\* branch, autoStartedPhases the phase of every succeeded branch, each of those
\* phases is APPROVED with the branch's output, and a fan-out of two branches of
\* which one fails, on a run with neither branch phase APPROVED, leaves exactly
\* one started phase, one reason and one branch phase APPROVED
C13_FanoutKeepsSucceededBranches ==
    [][\A i \in DOMAIN requests :
          (/\ IsCall("callLlmBatch") /\ lastCall'.thrown # "LockTimeout"
           /\ requests[i].stage = "batch" /\ requests'[i].stage = "done"
           /\ requests'[i].results # <<>>)
          => LET q == requests'[i]
                 failed == FailedBranches(q)
                 succeeded == SucceededPhaseBranches(q)
                 before == runs[q.runId]
                 after == runs'[q.runId]
             IN  /\ (\E k \in DOMAIN q.results : q.results[k]) => q.code = 200
                 /\ Len(q.autoStartErrors) = Cardinality(failed)
                 /\ Members(q.autoStartErrors)
                       = {q.permutations[k].variantId : k \in failed}
                 /\ Len(q.autoStartedPhases) = Cardinality(succeeded)
                 /\ Members(q.autoStartedPhases)
                       = {q.permutations[k].phaseId : k \in succeeded}
                 /\ \A k \in succeeded :
                       LET phase == after.phases[q.permutations[k].phaseId]
                       IN  /\ phase.status = "APPROVED"
                           /\ phase.output
                                 = PhaseOutput(q.permutations[k].variantId, i, NoAttempt)
                 /\ (/\ Len(q.permutations) = 2 /\ Cardinality(failed) = 1
                     /\ ApprovedAmong(before, {"phase_b", "phase_c"}) = {})
                    => /\ Len(q.autoStartedPhases) = 1
                       /\ Len(q.autoStartErrors) = 1
                       /\ Cardinality(ApprovedAmong(after, {"phase_b", "phase_c"})) = 1
      ]_vars

C13_Witness ==
    /\ lastCall.op = "callLlmBatch" /\ lastCall.thrown = NoThrow
    /\ Len(requests) = 1 /\ IsFanout(requests[1])
    /\ requests[1].code = 200
    /\ requests[1].results = <<FALSE, TRUE>>
    /\ requests[1].autoStartedPhases = <<"phase_c">>
    /\ requests[1].autoStartErrors = <<"phase_b">>
    /\ runs["r1"].phases["phase_c"].status = "APPROVED"
    /\ runs["r1"].phases["phase_c"].output = PhaseOutput("phase_c", 1, NoAttempt)
    /\ runs["r1"].phases["phase_b"].status = "DRAFT"

\* C14: a fan-out whose branches all failed is answered with a rejection
C14_AllFailedIsRejected ==
    \A i \in DOMAIN requests :
        (/\ IsFanout(requests[i]) /\ requests[i].stage = "done"
         /\ requests[i].results # <<>>
         /\ FailedBranches(requests[i]) = DOMAIN requests[i].permutations)
        => requests[i].code # 200

\* C15: every status change that an action makes on a phase of a run follows
\* the lifecycle: to RUNNING only from DRAFT by START_PHASE or by RETRY_PHASE, to
\* APPROVED or REJECTED only from WAITING_FOR_HUMAN or READY_FOR_REVIEW, to
\* ERROR_STATUS only from RUNNING, and out of ERROR_STATUS only by RETRY_PHASE
C15_LifecycleEdgesOnly ==
    [][\A r \in DOMAIN runs : \A p \in DOMAIN runs[r].phases :
          (/\ IsCall("applyWorkflowAction") /\ lastCall'.thrown = NoThrow
           /\ lastCall'.runId = r /\ lastCall'.phaseId = p
           /\ runs'[r].phases[p].status # runs[r].phases[p].status)
          => LET old == runs[r].phases[p].status
                 new == runs'[r].phases[p].status
                 action == lastCall'.action
             IN  /\ new = "RUNNING"
                      => \/ old = "DRAFT" /\ action = "START_PHASE"
                         \/ action = "RETRY_PHASE"
                 /\ new \in {"APPROVED", "REJECTED"}
                      => old \in {"WAITING_FOR_HUMAN", "READY_FOR_REVIEW"}
                 /\ new = "ERROR_STATUS" => old = "RUNNING"
                 /\ old = "ERROR_STATUS" => action = "RETRY_PHASE"
      ]_vars

\* C16: when the generation call of a request fails, the phase of the request
\* is in ERROR_STATUS once the request is answered
C16_FailedGenerationMarksError ==
    [][\A i \in DOMAIN requests :
          (/\ IsCall("callLlmForPhase") /\ lastCall'.thrown = "LlmFailure"
           /\ requests[i].stage = "llm" /\ requests'[i].stage = "done")
          => /\ requests[i].runId \in DOMAIN runs'
             /\ runs'[requests[i].runId].phases[requests[i].phaseId].status
                   = "ERROR_STATUS"
      ]_vars

\* C17: applyWorkflowAction on a phaseId that the run does not have throws the
\* unknown-phase error, publishes nothing, and leaves the run as it was, in the
\* cache and in the store: statuses, attempts, outputs, artifacts, node statuses
\* and updatedAt; a run that did not exist is seeded and nothing more
C17_UnknownPhaseChangesNothing ==
    [][\A r \in RunIds :
          (/\ IsCall("applyWorkflowAction") /\ lastCall'.runId = r
           /\ lastCall'.action \in MUTATING_ACTIONS
           /\ lastCall'.phaseId \notin PhaseIds
           /\ lastCall'.thrown # "LockTimeout")
          => /\ lastCall'.thrown = "UnknownPhase"
             /\ published' = <<>>
             /\ r \in DOMAIN runs => runs'[r] = runs[r]
             /\ r \in DOMAIN db.runs => db' = db
             /\ r \notin DOMAIN runs /\ r \notin DOMAIN db.runs
                   => /\ runs'[r] = Seeded(r, now)
                      /\ db'.runs[r] = Seeded(r, now)
             /\ db'.artifacts = db.artifacts
      ]_vars

C17_Witness ==
    /\ lastCall.op = "applyWorkflowAction" /\ lastCall.thrown = "UnknownPhase"
    /\ lastCall.phaseId = "phase_x" /\ lastCall.action = "RETRY_PHASE"
    /\ now = 2 /\ published = <<>>
    /\ runs["r1"].phases["phase_a"].status = "RUNNING"
    /\ runs["r1"].updatedAt = 0

\* C18: a request on an existing run that is turned down for an action
\* mismatch, a missing payload field or a selector that does not occur is
\* answered 400, and leaves the run, cached and stored, and the artifacts as
\* they were, and publishes nothing
C18_RejectedRequestChangesNothing ==
    [][\A r \in DOMAIN runs \cup DOMAIN db.runs :
          (/\ IsCall("handleActionRequest") /\ lastCall'.runId = r
           /\ lastCall'.thrown \in {"ActionMismatch", "MissingPayloadField",
                                     "SelectorNotFound"})
          => /\ Len(requests') = Len(requests) + 1
             /\ requests'[Len(requests')].code = 400
             /\ db' = db /\ artSeq' = artSeq
             /\ published' = <<>>
             /\ r \in DOMAIN runs => runs'[r] = runs[r]
             /\ ViewOf(runs', db', r, now') = ViewOf(runs, db, r, now)
      ]_vars

C18_Witness ==
    /\ lastCall.op = "handleActionRequest" /\ lastCall.thrown = "SelectorNotFound"
    /\ lastCall.phaseId = "phase_e" /\ lastCall.action = "RETRY_PHASE"
    /\ requests[Len(requests)].code = 400
    /\ now = 2
    /\ runs["r1"].phases["phase_e"].output # NoOutput
    /\ Len(db.artifacts) = 1
    /\ runs["r1"].updatedAt = 0

SubscribedTo(listeners, runId) == Members(ListenersOf(listeners, runId))

InvocationsOf(invocations, listener, event) ==
    {j \in DOMAIN invocations : invocations[j] = Invocation(listener, event)}

\* C19: an action published to a run that has a listener that throws returns
\* without a throw, with its change of the phase made and saved, and every
\* listener of the run has been invoked with its event
C19_ListenerFaultIsContained ==
    [][\A r \in StoreRunIds :
          (/\ IsCall("applyWorkflowAction") /\ lastCall'.runId = r
           /\ lastCall'.thrown # "LockTimeout"
           /\ \E l \in SubscribedTo(runListeners, r) : ListenerThrows(l))
          => /\ lastCall'.thrown = NoThrow
             /\ Len(published') = 1
             /\ \A l \in SubscribedTo(runListeners, r) :
                   InvocationsOf(delivered', l, published'[1]) # {}
             /\ runs'[r].phases[lastCall'.phaseId].status
                   = STATUS_TRANSITIONS(lastCall'.action)
             /\ db'.runs[r] = runs'[r]
      ]_vars

C19_Witness ==
    /\ lastCall.op = "applyWorkflowAction" /\ lastCall.thrown = NoThrow
    /\ lastCall.runId = "r1" /\ lastCall.action = "START_PHASE"
    /\ ListenersOf(runListeners, "r1") = <<"l2", "l1">>
    /\ Len(published) = 1
    /\ delivered = <<Invocation("l2", published[1]), Invocation("l1", published[1])>>
    /\ runs["r1"].phases["phase_a"].status = "RUNNING"

\* C20: a call invokes, for each event it publishes, every listener subscribed
\* to the run of the event when the call is made exactly once, and no other
\* listener; a subscription made later invokes nothing
C20_DeliveryToCurrentSubscribers ==
    [][/\ now' = now + 1 =>
            /\ \A k \in DOMAIN published' : \A l \in Listeners :
                  Cardinality(InvocationsOf(delivered', l, published'[k]))
                     = IF l \in SubscribedTo(runListeners, published'[k].runId)
                       THEN 1 ELSE 0
            /\ \A j \in DOMAIN delivered' :
                  delivered'[j].event \in Members(published')
       /\ now' = now => delivered' = delivered
      ]_vars

C20_Witness ==
    /\ lastCall.op = "applyWorkflowAction" /\ lastCall.runId = "r1"
    /\ ListenersOf(runListeners, "r1") = <<"l1", "l3">>
    /\ ListenersOf(runListeners, "r2") = <<"l2", "l3">>
    /\ Len(published) = 1
    /\ delivered = <<Invocation("l1", published[1]), Invocation("l3", published[1])>>

\* ---- C21 ----
Without(listenerSeq, listener) == SelectSeq(listenerSeq, LAMBDA l : l # listener)

TimesIn(listenerSeq, listener) ==
    Cardinality({i \in DOMAIN listenerSeq : listenerSeq[i] = listener})

IsSubscribe == now' = now /\ lastCall'.op = "subscribeToRunEvents"

IsUnsubscribe == now' = now /\ lastCall'.op = "unsubscribe"

\* C21: a registration leaves its listener held exactly once for the run, and
\* changes nothing when the listener was held already; an unsubscribe function
\* called for a listener that is not held changes nothing; after an unsubscribe
\* function was called its listener is not held for the run, every other
\* listener of the run and every listener of another run is held as before,
\* and an event published reaches every held listener of its run once and no
\* other listener
C21_SubscriptionsAreIdempotent ==
    [][LET r == lastCall'.runId
           l == lastCall'.listener
       IN  /\ IsSubscribe =>
                 /\ TimesIn(ListenersOf(runListeners', r), l) = 1
                 /\ l \in SubscribedTo(runListeners, r) => runListeners' = runListeners
                 /\ Without(ListenersOf(runListeners', r), l)
                       = Without(ListenersOf(runListeners, r), l)
                 /\ \A other \in StoreRunIds \ {r} :
                       ListenersOf(runListeners', other) = ListenersOf(runListeners, other)
           /\ IsUnsubscribe =>
                 /\ l \notin SubscribedTo(runListeners, r) => runListeners' = runListeners
                 /\ l \notin SubscribedTo(runListeners', r)
                 /\ ListenersOf(runListeners', r)
                       = Without(ListenersOf(runListeners, r), l)
                 /\ \A other \in StoreRunIds \ {r} :
                       ListenersOf(runListeners', other) = ListenersOf(runListeners, other)
           /\ IsCall("applyWorkflowAction") =>
                 \A e \in {published'[i] : i \in DOMAIN published'}, k \in Listeners :
                     Cardinality({i \in DOMAIN delivered' :
                                    delivered'[i] = Invocation(k, e)})
                       = IF k \in SubscribedTo(runListeners, e.runId) THEN 1 ELSE 0
      ]_vars

\* the unsubscribe function of l1 for the first run was called while l2 and l3
\* are held for that run and l1 is held for the second
C21_Witness ==
    /\ lastCall.op = "unsubscribe"
    /\ lastCall.runId = "r1"
    /\ lastCall.listener = "l1"
    /\ ListenersOf(runListeners, "r1") = <<"l2", "l3">>
    /\ "l1" \in SubscribedTo(runListeners, "r2")

\* ---- C22 ----
PositionsIn(events, event) == {k \in DOMAIN events : events[k] = event}

\* C22: every event a call delivers is stamped with the time the call wrote as
\* the run's updatedAt, which is no earlier than the run's previous updatedAt
\* nor than any event of the run delivered before; a listener receives the
\* events of a call in the order in which the call published them; and when a
\* phase_updated event has been delivered the cached snapshot, the snapshot
\* getWorkflowSnapshot returns and the stored snapshot show its status
C22_DeliveryFollowsTheMutation ==
    [][now' = now + 1 =>
         \A j \in DOMAIN delivered' :
            LET e == delivered'[j].event
                r == e.runId
            IN  /\ r \in DOMAIN runs' /\ r \in DOMAIN db'.runs
                /\ e.emittedAt = runs'[r].updatedAt
                /\ r \in DOMAIN runs => runs[r].updatedAt <= e.emittedAt
                /\ \A i \in DOMAIN delivered :
                      delivered[i].event.runId = r
                         => delivered[i].event.emittedAt <= e.emittedAt
                /\ \A i \in 1..j :
                      delivered'[i].listener = delivered'[j].listener
                         => \E a \in PositionsIn(published', delivered'[i].event),
                               b \in PositionsIn(published', e) : a <= b
                /\ e.eventType = "phase_updated" =>
                      /\ runs'[r].phases[e.phaseId].status = e.status
                      /\ db'.runs[r].phases[e.phaseId].status = e.status
                      /\ getWorkflowSnapshot(Call(runs', db', artSeq', now', 0), r)
                            .runs[r].phases[e.phaseId].status = e.status
      ]_vars

\* the approval of a running phase_a, made at time 1, is delivered to a
\* listener: the stored snapshot shows APPROVED
C22_Witness ==
    /\ lastCall.op = "applyWorkflowAction"
    /\ lastCall.action = "APPROVE_PHASE"
    /\ lastCall.previousStatus = "RUNNING"
    /\ Len(delivered) >= 1
    /\ delivered[1].event.status = "APPROVED"
    /\ delivered[1].event.emittedAt = 1
    /\ db.runs["r1"].phases["phase_a"].status = "APPROVED"

\* ---- C23 ----
IsPrefix(short, long) ==
    Len(short) <= Len(long) /\ SubSeq(long, 1, Len(short)) = short

Forwarded(emitted) == SelectSeq(emitted, LAMBDA e : e.eventType # "heartbeat")

Heartbeats(emitted) == SelectSeq(emitted, LAMBDA e : e.eventType = "heartbeat")

\* C23: a connection for a run that is not closed has emitted something; what
\* a connection has emitted begins with the heartbeat of
\* sequence number 1, its heartbeats carry strictly increasing sequence
\* numbers, and every event in it is of the connection's run; a step adds to
\* what a connection emitted and never takes from it; a call that publishes
\* adds its events, in publication order, to every connection for the run of
\* the events that is not closed and whose controller accepts them, and no
\* event to any other connection; a closed connection emits nothing more
C23_StreamForwardsItsRun ==
    [][\A c \in DOMAIN streams' :
          LET emitted == streams'[c].emitted
              beats == Heartbeats(emitted)
              before == IF c \in DOMAIN streams THEN streams[c].emitted ELSE <<>>
              live == /\ c \in DOMAIN streams
                      /\ ~streams[c].closed
                      /\ ~streams[c].broken
              ofRun == SelectSeq(published',
                                 LAMBDA e : e.runId = streams'[c].runId)
          IN  /\ ~streams'[c].closed => emitted # <<>>
              /\ emitted # <<>> => /\ emitted[1].eventType = "heartbeat"
                                   /\ emitted[1].sequence = 1
              /\ \A i \in DOMAIN beats : beats[i].sequence = i
              /\ \A i \in DOMAIN emitted : emitted[i].runId = streams'[c].runId
              /\ IsPrefix(before, emitted)
              /\ Forwarded(emitted) =
                    Forwarded(before) \o (IF now' = now + 1 /\ live THEN ofRun ELSE <<>>)
              /\ (c \in DOMAIN streams /\ streams[c].closed) =>
                    streams'[c].emitted = streams[c].emitted
      ]_vars

\* a connection for the first run has emitted its first heartbeat, the event of
\* a start of phase_a and a second heartbeat, while a connection for the second
\* run has emitted its heartbeat only
C23_Witness ==
    /\ DOMAIN streams = Connections
    /\ streams["l1"].runId = "r1"
    /\ streams["l3"].runId = "r2"
    /\ Len(streams["l1"].emitted) = 3
    /\ streams["l1"].emitted[2].eventType = "phase_updated"
    /\ streams["l1"].emitted[3].eventType = "heartbeat"
    /\ streams["l1"].emitted[3].sequence = 2
    /\ Len(streams["l3"].emitted) = 1
    /\ lastCall.op = "applyWorkflowAction"

\* ---- C24 ----
InSection(process) ==
    process.pc \in {"reading", "creating", "parsing", "writing", "renaming", "releasing"}

TimesOut(p) ==
    /\ procs[p].pc = "acquiring"
    /\ procs'[p].pc = "idle"
    /\ procs'[p].outcome = "LockTimeout"

\* C24: at most one process is between making the lock directory and removing
\* it; a process whose wait times out leaves the lock directory, which it did
\* not make, in place; and the document at the store path, once complete, is the
\* one that the writes committed so far yield when applied one after another
C24_WritersExcludeEachOther ==
    [][/\ Cardinality({p \in Procs : InSection(procs'[p])}) <= 1
       /\ \A p \in Procs :
             TimesOut(p) => /\ disk' = disk
                            /\ disk.lock # NoHolder
       /\ disk'.file.state = "complete" => disk'.file.doc = disk'.committed
      ]_vars

\* both processes committed their last write and no process crashed: the
\* document holds the run and the artifact of p2
C24_Witness ==
    /\ procs["p1"].outcome = "committed"
    /\ procs["p2"].outcome = "committed"
    /\ procs["p1"].pc = "idle" /\ procs["p2"].pc = "idle"
    /\ disk.crashes = 0
    /\ disk.file = CompleteFile([runs |-> {"r1"}, artifacts |-> {"p2"}])

\* ---- C25 ----
LeavesSection(p) ==
    /\ InSection(procs[p])
    /\ procs'[p].pc = "idle"

\* C25: a process that waits for the lock stops waiting, because it made the
\* lock directory or because its wait timed out; and when a process leaves its
\* section, by a return or by a throw, the lock directory is gone
C25_AcquisitionEnds ==
    /\ \A p \in Procs : (procs[p].pc = "acquiring") ~> (procs[p].pc # "acquiring")
    /\ [][\A p \in Procs : LeavesSection(p) => disk'.lock = NoHolder]_vars

\* a process whose write of the temporary file threw is idle, the lock
\* directory is gone, and the other process, which timed out before, holds it
\* no more than the first
C25_Witness ==
    /\ procs["p2"].outcome = "threw"
    /\ procs["p2"].pc = "idle"
    /\ procs["p1"].outcome = "LockTimeout"
    /\ procs["p1"].pc = "idle"
    /\ disk.lock = NoHolder

\* ---- C26 ----
BeingCreated == \E p \in Procs : procs[p].pc = "creating"

\* C26: the document at the store path is never left partial: it is partial
\* only while a running process is in the write that creates it
C26_CrashLeavesCompleteDocument ==
    disk.file.state = "partial" => BeingCreated

\* ---- C27 ----
Crashed == \E p \in Procs : procs[p].pc = "crashed"

Committing == \E p \in Procs : procs[p].pc = "releasing"

\* C27: when the document is never left partial and every process that
\* crashed is restarted, writes keep being committed
C27_WritesCommitAfterRestart ==
    \/ <>(disk.file.state = "partial" /\ ~BeingCreated)
    \/ []<>Crashed
    \/ []<>Committing

\* ---- C28 ----
\* C28: when applyWorkflowAction or persistPhaseOutput has returned, the stored
\* snapshot of the run has, for the phase of the call, the output, artifact
\* references, status and attempt of the cached snapshot; and a
\* getWorkflowSnapshot of a run that is stored and not cached returns the
\* stored snapshot and leaves the store as it is
C28_StoredSnapshotIsTheCachedOne ==
    [][LET r == lastCall'.runId
           p == lastCall'.phaseId
       IN  /\ (/\ IsCall("applyWorkflowAction") \/ IsCall("persistPhaseOutput")
               /\ lastCall'.thrown = NoThrow)
              => /\ r \in DOMAIN runs' /\ r \in DOMAIN db'.runs
                 /\ LET cached == runs'[r].phases[p]
                        stored == db'.runs[r].phases[p]
                    IN  /\ stored.output = cached.output
                        /\ stored.artifacts = cached.artifacts
                        /\ stored.status = cached.status
                        /\ stored.attempt = cached.attempt
           /\ (/\ IsCall("getWorkflowSnapshot")
               /\ lastCall'.thrown = NoThrow
               /\ r \notin DOMAIN runs
               /\ r \in DOMAIN db.runs)
              => /\ runs'[r] = db.runs[r]
                 /\ client'.returned = db.runs[r]
                 /\ db' = db
      ]_vars

\* the run returned by getWorkflowSnapshot, at its first fetch, has phase_a
\* with an output and an artifact reference, as the stored one has, and was
\* stamped before the call
C28_Witness ==
    /\ lastCall.op = "getWorkflowSnapshot" /\ lastCall.thrown = NoThrow
    /\ client.fetches = 1
    /\ lastCall.runId = "r1" /\ "r1" \in DOMAIN db.runs
    /\ client.returned = db.runs["r1"]
    /\ client.returned.phases["phase_a"].output # NoOutput
    /\ Len(client.returned.phases["phase_a"].artifacts) = 1
    /\ client.returned.updatedAt < now - 1

\* ---- C29 ----
CurrentArtifactsReferenced(snapshot, dbNow) ==
    \A i \in DOMAIN dbNow.artifacts :
        LET stored == dbNow.artifacts[i]
        IN  (/\ stored.runId = snapshot.runId
             /\ stored.phaseId \in DOMAIN snapshot.phases
             /\ stored.attempt = snapshot.phases[stored.phaseId].attempt)
            => ArtifactRef(stored) \in Members(snapshot.phases[stored.phaseId].artifacts)

\* C29: between the engine's calls every cached run is stored as it is cached,
\* and every stored artifact of a cached run's phase at its current attempt is
\* referenced by the phase
C29_CacheAndStoreAgree ==
    \A r \in DOMAIN runs :
        /\ r \in DOMAIN db.runs
        /\ db.runs[r] = runs[r]
        /\ CurrentArtifactsReferenced(runs[r], db)

\* ---- C30 ----
IsMerge ==
    /\ IsCall("handleActionRequest")
    /\ lastCall'.action = "START_PHASE"
    /\ Len(requests') = Len(requests) + 1

\* the entries of the phase's output that carry an output made for the attempt
\* the phase is at
CurrentResults(phase) ==
    {e \in Members(phase.output.generatedRefinements) :
        e.output # NoOutput /\ e.output.forAttempt = phase.attempt}

\* C30: a merge request is answered 200 only when its selectedVariantId names
\* a result of the induction made for the attempt phase_e is at, and then the
\* phase has the content of that result as its output and is COMPLETED; a
\* merge request whose selectedVariantId names no such result is answered 400
\* and changes no status, persists no output and publishes no event
C30_MergeTakesACurrentResult ==
    [][IsMerge =>
         LET answer == requests'[Len(requests')]
             before == ViewOf(runs, db, answer.runId, now).phases["phase_e"]
             after == runs'[answer.runId].phases["phase_e"]
             named == {e \in CurrentResults(before) :
                          e.variantId = answer.selectedVariantId}
         IN  /\ answer.code = 200 =>
                   /\ named # {}
                   /\ \E e \in named :
                         /\ after.output.request = e.output.request
                         /\ after.output.forAttempt = e.output.forAttempt
                   /\ after.status = "COMPLETED"
                   /\ db'.runs[answer.runId].phases["phase_e"] = after
             /\ (named = {} /\ lastCall'.thrown = NoThrow) =>
                   /\ answer.code = 400
                   /\ after = before
                   /\ db'.artifacts = db.artifacts
                   /\ published' = <<>>
      ]_vars

\* ---- C31 ----
\* the step in which request i of the fan-out is answered
FanoutAnswered(i) ==
    /\ IsCall("callLlmBatch")
    /\ requests[i].stage = "batch" /\ requests'[i].stage = "done"

ContextArtifactsOf(dbNow, snapshot) ==
    {a \in Members(dbNow.artifacts) :
        /\ a.runId = snapshot.runId /\ a.phaseId = "phase_a"
        /\ a.attempt = snapshot.phases["phase_a"].attempt
        /\ a.kind = "json" /\ a.data.field = "contextArtifact"}

EveryRequestAccepted ==
    /\ requests # <<>>
    /\ \A i \in DOMAIN requests : requests[i].stage = "done" /\ requests[i].code = 200

\* C31: when a START_PHASE request on the gate is answered 200, the gate is
\* APPROVED and its context artifact is stored and referenced, the phase of
\* every branch that succeeded is APPROVED with the branch's output, the output
\* of phase_d lists the launched branches one entry each, in the order they
\* were launched and none of them RUNNING, and once every request has been
\* answered 200 nothing changes the run or the store until a new request
C31_AcceptedFanoutHasFinished ==
    [][/\ \A i \in DOMAIN requests :
            (FanoutAnswered(i) /\ requests'[i].code = 200)
            => LET q == requests'[i]
                   after == runs'[q.runId]
                   listed == after.phases["phase_d"].output.generatedVariants
               IN  /\ db'.runs[q.runId] = after
                   /\ after.phases["phase_a"].status = "APPROVED"
                   /\ after.phases["phase_a"].output # NoOutput
                   /\ \E a \in ContextArtifactsOf(db', after) :
                         ArtifactRef(a) \in Members(after.phases["phase_a"].artifacts)
                   /\ \A k \in SucceededPhaseBranches(q) :
                         LET phase == after.phases[q.permutations[k].phaseId]
                         IN  /\ phase.status = "APPROVED"
                             /\ phase.output
                                   = PhaseOutput(q.permutations[k].variantId, i, NoAttempt)
                   /\ Len(q.results) = Len(q.permutations)
                   /\ Len(listed) = Len(q.permutations)
                   /\ \A k \in DOMAIN q.permutations :
                         /\ listed[k].variantId = q.permutations[k].variantId
                         /\ listed[k].status
                               = IF q.results[k] THEN "APPROVED" ELSE "ERROR_STATUS"
       /\ (EveryRequestAccepted /\ requests' = requests)
            => (runs' = runs /\ db' = db /\ published' = published)
      ]_vars

C31_Witness ==
    /\ lastCall.op = "callLlmBatch" /\ lastCall.thrown = NoThrow
    /\ Len(requests) = 1 /\ IsFanout(requests[1])
    /\ requests[1].stage = "done" /\ requests[1].code = 200
    /\ requests[1].results = <<TRUE, FALSE, TRUE>>
    /\ runs["r1"].phases["phase_a"].status = "APPROVED"
    /\ runs["r1"].phases["phase_b"].status = "APPROVED"
    /\ runs["r1"].phases["phase_c"].status = "APPROVED"
    /\ Len(runs["r1"].phases["phase_d"].output.generatedVariants) = 3
    /\ runs["r1"].phases["phase_d"].output.generatedVariants[2].status = "ERROR_STATUS"

\* ---- C32 ----
\* the step in which merge-review request i is answered
ReviewAnswered(i) ==
    /\ requests[i].phaseId = "phase_d"
    /\ requests[i].stage = "merge" /\ requests'[i].stage = "done"

First(indices) == CHOOSE k \in indices : \A j \in indices : k <= j

\* the variant that the fallback is to be built from: the first preferred one
\* that has an output, else the first one that has an output
BaseVariants(q) ==
    LET available == {k \in DOMAIN q.variantsForMerge :
                         q.variantsForMerge[k].output # NoOutput}
        preferred == {k \in available :
                         q.variantsForMerge[k].variantId \in q.preferredVariantIds}
    IN  IF preferred # {} THEN {First(preferred)}
        ELSE IF available # {} THEN {First(available)} ELSE {}

\* C32: when a START_PHASE request on the merge review is answered 200, phase_d
\* is APPROVED and phase_e is COMPLETED with an output, stored as cached; when
\* the merge generation failed, that output is the fallback made of the output
\* of the first preferred variant that has one, else of the first variant that
\* has one, and the response reports the failure in autoStartErrors; when it
\* returned, the output is the generated one and no failure is reported
C32_MergeReviewFinalizes ==
    [][\A i \in DOMAIN requests :
          (ReviewAnswered(i) /\ requests'[i].code = 200)
          => LET q == requests'[i]
                 after == runs'[q.runId]
             IN  /\ db'.runs[q.runId] = after
                 /\ after.phases["phase_d"].status = "APPROVED"
                 /\ after.phases["phase_e"].status = "COMPLETED"
                 /\ after.phases["phase_e"].output # NoOutput
                 /\ after.phases["phase_e"].artifacts # <<>>
                 /\ q.autoStartedPhases = <<"phase_e">>
                 /\ lastCall'.op = "callLlmForPhaseFailed"
                       => /\ q.autoStartErrors = <<"phase_e_merge">>
                          /\ after.phases["phase_e"].output
                                = FinalFallbackOutput(q.mergedBaseOutput)
                          /\ \A k \in BaseVariants(q) :
                                q.mergedBaseOutput = q.variantsForMerge[k].output
                 /\ lastCall'.op = "callLlmForPhase"
                       => /\ q.autoStartErrors = <<>>
                          /\ after.phases["phase_e"].output = FinalMergeOutput(i)
      ]_vars

\* the merge generation failed after a gate whose two branches succeeded, with
\* phase_c preferred: the fallback is made of the output of phase_c
C32_Witness ==
    /\ lastCall.op = "callLlmForPhaseFailed" /\ lastCall.thrown = NoThrow
    /\ Len(requests) = 2 /\ requests[2].phaseId = "phase_d"
    /\ requests[2].stage = "done" /\ requests[2].code = 200
    /\ requests[2].autoStartErrors = <<"phase_e_merge">>
    /\ Len(requests[2].variantsForMerge) = 2
    /\ requests[2].variantsForMerge[1].output = PhaseOutput("phase_b", 1, NoAttempt)
    /\ requests[2].mergedBaseOutput = PhaseOutput("phase_c", 1, NoAttempt)
    /\ runs["r1"].phases["phase_d"].status = "APPROVED"
    /\ runs["r1"].phases["phase_e"].status = "COMPLETED"
    /\ runs["r1"].phases["phase_e"].output
          = FinalFallbackOutput(PhaseOutput("phase_c", 1, NoAttempt))

\* ---- C33 ----
\* the client holds the run as it is in the registry
HoldsAuthoritative(runId) ==
    /\ client.held /\ client.runId = runId
    /\ runId \in DOMAIN runs /\ client.returned = runs[runId]

StatusDiffers(one, other, phaseId) ==
    \/ one.phases[phaseId].status # other.phases[phaseId].status
    \/ NodeStatus(one, phaseId) # NodeStatus(other, phaseId)

\* C33: for a client that holds the run as the engine has it when
\* applyWorkflowAction is called: applyActionResponse with the accepted response
\* returns a document that is not the one held, that differs from the one held
\* in the status of the targeted phase only, and whose targeted phase has the
\* engine's status in nodes and in phases; the status of another phase differs
\* from the engine's only where the engine unblocked it, BLOCKED for the client
\* and DRAFT for the engine; a getWorkflowSnapshot made then returns the
\* engine's run; with a response that is not accepted the document held is
\* returned itself
C33_ClientUpdateAgreesOnTarget ==
    [][(IsCall("applyWorkflowAction") /\ HoldsAuthoritative(lastCall'.runId))
       => LET r == lastCall'.runId
              p == lastCall'.phaseId
              accepted == lastCall'.thrown = NoThrow
              held == client.returned
              result == applyActionResponse(held,
                           ActionResponse(accepted, r, p,
                              IF accepted THEN STATUS_TRANSITIONS(lastCall'.action)
                              ELSE "ERROR_STATUS"))
              next == result.doc
              engine == runs'[r]
          IN  /\ accepted =>
                  /\ ~result.alias
                  /\ ~StatusDiffers(next, engine, p)
                  /\ [next EXCEPT
                        !.phases[p].status = held.phases[p].status,
                        !.nodes = updateNodeStatus(@, p, NodeStatus(held, p))] = held
                  /\ \A q \in DOMAIN engine.phases :
                        StatusDiffers(next, engine, q)
                        => /\ q \in lastCall'.unblocked
                           /\ next.phases[q].status = "BLOCKED"
                           /\ NodeStatus(next, q) = "BLOCKED"
                           /\ engine.phases[q].status = "DRAFT"
                           /\ NodeStatus(engine, q) = "DRAFT"
                  /\ ViewOf(runs', db', r, now') = engine
              /\ ~accepted => (result.alias /\ next = held)
      ]_vars

\* the client fetched the seeded run, phase_a was approved, and the client's
\* update shows phase_b BLOCKED where the engine has it DRAFT
C33_Witness ==
    /\ lastCall.op = "applyWorkflowAction" /\ lastCall.thrown = NoThrow
    /\ lastCall.action = "APPROVE_PHASE" /\ lastCall.phaseId = "phase_a"
    /\ "phase_b" \in lastCall.unblocked
    /\ client.held /\ client.runId = "r1" /\ "r1" \in DOMAIN runs
    /\ client.returned.updatedAt < runs["r1"].updatedAt
    /\ LET next == applyActionResponse(client.returned,
                      ActionResponse(TRUE, "r1", "phase_a", "APPROVED")).doc
       IN  /\ next.phases["phase_a"].status = "APPROVED"
           /\ next.phases["phase_b"].status = "BLOCKED"
           /\ runs["r1"].phases["phase_a"].status = "APPROVED"
           /\ runs["r1"].phases["phase_b"].status = "DRAFT"

\* ---- C34 ----
\* request j is a merge review that has read the variants of a gate all of
\* whose generations succeeded, and awaits its own generation
StartedAfterGate(j) ==
    /\ j \in DOMAIN requests
    /\ requests[j].phaseId = "phase_d" /\ requests[j].stage = "merge"
    /\ \E i \in DOMAIN requests :
          /\ i < j /\ IsFanout(requests[i])
          /\ requests[i].stage = "done" /\ requests[i].code = 200
          /\ \A k \in DOMAIN requests[i].permutations : requests[i].results[k]
          /\ \A k \in DOMAIN requests[j].variantsForMerge :
                requests[j].variantsForMerge[k].output.request = i

RunIsFinal(snapshot) ==
    /\ \A p \in {"phase_a", "phase_b", "phase_c", "phase_d"} :
          snapshot.phases[p].status = "APPROVED" /\ NodeStatus(snapshot, p) = "APPROVED"
    /\ snapshot.phases["phase_e"].status = "COMPLETED"
    /\ NodeStatus(snapshot, "phase_e") = "COMPLETED"
    /\ \A p \in DOMAIN snapshot.phases :
          snapshot.phases[p].status \notin {"BLOCKED", "DRAFT", "RUNNING"}

\* C34: when the generation of a merge review returns, and that merge review
\* was started after a gate whose generations all succeeded, the request is
\* answered 200 and the run, cached and stored, has phase_a, phase_b, phase_c
\* and phase_d APPROVED and phase_e COMPLETED, with no phase BLOCKED, DRAFT or
\* RUNNING
C34_RunReachesFinal ==
    [][\A j \in DOMAIN requests :
          (/\ StartedAfterGate(j) /\ ReviewAnswered(j)
           /\ lastCall'.op = "callLlmForPhase")
          => /\ requests'[j].code = 200
             /\ RunIsFinal(runs'[requests[j].runId])
             /\ db'.runs[requests[j].runId] = runs'[requests[j].runId]
      ]_vars

C34_Witness ==
    /\ Len(requests) = 2 /\ IsFanout(requests[1])
    /\ requests[1].results = <<TRUE, TRUE>>
    /\ requests[2].phaseId = "phase_d" /\ requests[2].stage = "done"
    /\ requests[2].code = 200 /\ requests[2].autoStartErrors = <<>>
    /\ requests[2].variantsForMerge[1].output = PhaseOutput("phase_b", 1, NoAttempt)
    /\ lastCall.op = "callLlmForPhase"
    /\ RunIsFinal(runs["r1"])
    /\ runs["r1"].phases["phase_e"].output = FinalMergeOutput(2)

\* C35: one applyWorkflowAction call on phase p of a run changes the status of no
\* phase other than p, except that a phase that lists p in its dependsOn and was
\* BLOCKED may become DRAFT; a phase that only depends on such a dependent keeps
\* its status; startedAt, finishedAt, attempt, output and artifacts of every
\* phase other than p are as before the call
C35_ActionFrame ==
    [][\A r \in RunIds :
          (IsCall("applyWorkflowAction") /\ lastCall'.runId = r) =>
              LET before == ViewOf(runs, db, r, now)
                  after == ViewOf(runs', db', r, now')
                  p == lastCall'.phaseId
              IN  \A q \in PhaseIds \ {p} :
                    /\ after.phases[q].status # before.phases[q].status =>
                          /\ p \in DependsOn(before, q)
                          /\ before.phases[q].status = "BLOCKED"
                          /\ after.phases[q].status = "DRAFT"
                    /\ after.phases[q].startedAt = before.phases[q].startedAt
                    /\ after.phases[q].finishedAt = before.phases[q].finishedAt
                    /\ after.phases[q].attempt = before.phases[q].attempt
                    /\ after.phases[q].output = before.phases[q].output
                    /\ after.phases[q].artifacts = before.phases[q].artifacts]_vars

C35_Witness ==
    /\ lastCall.op = "applyWorkflowAction" /\ lastCall.action = "APPROVE_PHASE"
    /\ lastCall.phaseId = "phase_c" /\ lastCall.thrown = NoThrow
    /\ lastCall.unblocked = {"phase_d"}
    /\ "r1" \in DOMAIN runs
    /\ runs["r1"].phases["phase_d"].status = "DRAFT"
    /\ runs["r1"].phases["phase_e"].status = "BLOCKED"

\* the outcome with which the generation of permutation k of a request settled:
\* TRUE only if it settled, and with SUCCESS
SettledWith(request, k) ==
    \E s \in DOMAIN Settled(request) :
        Settled(request)[s].index = k /\ Settled(request)[s].success

DraftOnlyWhenSatisfied(snapshot) ==
    \A p \in DOMAIN snapshot.phases :
        (snapshot.phases[p].status = "DRAFT" /\ DependsOn(snapshot, p) # {})
            => DependenciesSatisfied(snapshot, p)

\* C37: in every reachable state, cached or stored, a phase that has
\* dependencies and is DRAFT has every dependency COMPLETED or APPROVED, also
\* after a dependency of an unblocked phase was retried or rejected
C37_DraftDependenciesSatisfied ==
    /\ \A r \in DOMAIN runs : DraftOnlyWhenSatisfied(runs[r])
    /\ \A r \in DOMAIN db.runs : DraftOnlyWhenSatisfied(db.runs[r])

\* a phase of a run that no call has touched
SeededPhase(runId, phaseId) ==
    ViewOf(EmptyMap, [runs |-> EmptyMap, artifacts |-> <<>>], runId, 0).phases[phaseId]

\* C38: a request answered with accepted = false leaves the status, attempt,
\* output and artifacts of its phase as they were before it.  Stated for the
\* first request on a run, before which the phase is as seeded, and for the
\* refusal that follows a failed generation call
C38_RefusedRequestChangesNothing ==
    (/\ Len(requests) = 1 /\ requests[1].stage = "done" /\ requests[1].code # 200
     /\ lastCall.op = "callLlmForPhase" /\ lastCall.thrown = "LlmFailure")
    => LET before == SeededPhase(requests[1].runId, requests[1].phaseId)
           after == ViewOf(runs, db, requests[1].runId, now).phases[requests[1].phaseId]
       IN  /\ after.status = before.status
           /\ after.attempt = before.attempt
           /\ after.output = before.output
           /\ after.artifacts = before.artifacts

\* every reference of the artifacts lists of a snapshot is to a stored artifact
\* of the same run and phase, saved for the attempt the phase is at
ArtifactsResolve(snapshot, dbNow) ==
    \A p \in DOMAIN snapshot.phases :
        \A k \in DOMAIN snapshot.phases[p].artifacts :
            \E a \in DOMAIN dbNow.artifacts :
                /\ dbNow.artifacts[a].artifactId = snapshot.phases[p].artifacts[k].artifactId
                /\ dbNow.artifacts[a].runId = snapshot.runId
                /\ dbNow.artifacts[a].phaseId = p
                /\ dbNow.artifacts[a].attempt = snapshot.phases[p].attempt

\* C39: in every reachable state, every reference in the artifacts list of a
\* phase, in the cached run and in the stored one, is to an artifact that is in
\* the store with the run's runId, the phase's phaseId and the phase's current
\* attempt
C39_ArtifactReferencesResolve ==
    /\ \A r \in DOMAIN runs : ArtifactsResolve(runs[r], db)
    /\ \A r \in DOMAIN db.runs : ArtifactsResolve(db.runs[r], db)

\* a START_PHASE and a RETRY_PHASE request on phase_b overlapped and both were
\* answered 200: phase_b holds the references of both generations
C39_Witness ==
    /\ Len(requests) = 2
    /\ requests[1].action = "START_PHASE" /\ requests[2].action = "RETRY_PHASE"
    /\ \A i \in 1..2 : /\ requests[i].phaseId = "phase_b"
                         /\ requests[i].stage = "done" /\ requests[i].code = 200
    /\ "r1" \in DOMAIN runs /\ "r1" \in DOMAIN db.runs
    /\ runs["r1"].phases["phase_b"].attempt = 2
    /\ Len(runs["r1"].phases["phase_b"].artifacts) >= 6
    /\ db.runs["r1"] = runs["r1"]

\* C40: in every reachable state, the listener of a closed connection is not
\* among the listeners of its run and its heartbeat timer is not running
C40_ClosedConnectionLeavesNothing ==
    \A c \in DOMAIN streams :
        streams[c].closed =>
            /\ c \notin Members(ListenersOf(runListeners, streams[c].runId))
            /\ ~streams[c].heartbeatInterval

====
